---- MODULE Spec2Model ----
(***************************************************************************)
(* Model of quantipy/core/tools/dp/prep.py: the delimited-set codec        *)
(* (condense_dichotomous_set, dichotomous_from_delimited), the recoder     *)
(* (index_mapper, join_delimited_set_series, recode_from_index_mapper,     *)
(* recode).  pandas behaviour is that of the pinned pandas 1.3.5.          *)
(*                                                                         *)
(* A Python string is a sequence of one-character strings, so that         *)
(* splitting, joining, str() and int(float()) are computed, not assumed.   *)
(* A pandas cell is a record [k, v, s]: k is "nan", "int", "float" or      *)
(* "str"; v the numeric value (floats are whole numbers); s the string.    *)
(***************************************************************************)
EXTENDS Integers, Sequences, FiniteSets, TLC

VARIABLES
    pc,        \* position of the modelled call sequence
    M,         \* codec: the dichotomous DataFrame given to condense
    cargs,     \* codec: the arguments of the last codec call
    S,         \* codec: the series condense returned / expand received
    E,         \* codec: the outcome of expand
    N,         \* codec: the outcome of the split-and-recondense step
    data,      \* recode: the dataset, column name -> series
    meta,      \* recode: meta['columns'], column name -> [type, values]
    rargs,     \* recode: the arguments of the call
    res,       \* recode: the outcome of the call
    left,      \* merge: the left input (a column, a value list, a document)
    right,     \* merge: the right input
    margs,     \* merge: the other arguments of the call
    out,       \* merge: the outcome of the call
    stack      \* traversal: the frames of the calls in progress

vars == <<pc, M, cargs, S, E, N, data, meta, rargs, res, left, right, margs, out, stack>>

----------------------------------------------------------------------------
(* Bounds of the model *)

NRowsM == 2
MaxCols == 2
NRows == 2

----------------------------------------------------------------------------
(* Python strings and numbers *)

DigitChar == <<"0", "1", "2", "3", "4", "5", "6", "7", "8", "9">>

\* ord() of the characters that occur in codes, names and separators
CharOrd(c) ==
    CASE c = "." -> 46
      [] c = "0" -> 48 [] c = "1" -> 49 [] c = "2" -> 50 [] c = "3" -> 51
      [] c = "4" -> 52 [] c = "5" -> 53 [] c = "6" -> 54 [] c = "7" -> 55
      [] c = "8" -> 56 [] c = "9" -> 57
      [] c = ";" -> 59 [] c = "_" -> 95 [] c = "n" -> 110 [] c = "a" -> 97
      [] c = "q" -> 113 [] c = "N" -> 78 [] c = "o" -> 111 [] c = "e" -> 101
      [] OTHER -> 127

IsDigit(c) == CharOrd(c) >= 48 /\ CharOrd(c) <= 57

DigitVal(c) == CharOrd(c) - 48

RECURSIVE IntToStr(_)
\* str(n) for an int n >= 0
IntToStr(n) ==
    IF n < 10 THEN <<DigitChar[n + 1]>>
    ELSE IntToStr(n \div 10) \o <<DigitChar[(n % 10) + 1]>>

\* str(x) for a float x holding a whole number: "1.0"
FloatToStr(n) == IntToStr(n) \o <<".", "0">>

RECURSIVE ParseDigits(_, _)
ParseDigits(tok, acc) ==
    IF tok = <<>> \/ ~IsDigit(Head(tok)) THEN acc
    ELSE ParseDigits(Tail(tok), 10 * acc + DigitVal(Head(tok)))

\* int(float(tok)) for a token of digits with an optional fraction
IntOfFloatStr(tok) == ParseDigits(tok, 0)

RECURSIVE StrLess(_, _)
\* Python's str < str (by code point, a prefix is smaller)
StrLess(a, b) ==
    IF b = <<>> THEN FALSE
    ELSE IF a = <<>> THEN TRUE
    ELSE IF Head(a) = Head(b) THEN StrLess(Tail(a), Tail(b))
    ELSE CharOrd(Head(a)) < CharOrd(Head(b))

RECURSIVE SplitAcc(_, _, _)
SplitAcc(s, sep, cur) ==
    IF s = <<>> THEN <<cur>>
    ELSE IF Head(s) = sep THEN <<cur>> \o SplitAcc(Tail(s), sep, <<>>)
    ELSE SplitAcc(Tail(s), sep, Append(cur, Head(s)))

\* s.split(sep): always at least one piece, "1;3;" gives "1", "3", ""
Split(s, sep) == SplitAcc(s, sep, <<>>)

RECURSIVE Join(_, _)
\* sep.join(parts)
Join(parts, sep) ==
    IF parts = <<>> THEN <<>>
    ELSE IF Len(parts) = 1 THEN parts[1]
    ELSE parts[1] \o <<sep>> \o Join(Tail(parts), sep)

Range(f) == {f[i] : i \in DOMAIN f}

\* seq[-1] and seq[:-1]
Last(seq) == seq[Len(seq)]
ButLast(seq) == SubSeq(seq, 1, Len(seq) - 1)

----------------------------------------------------------------------------
(* pandas cells and series *)

NaN == [k |-> "nan", v |-> 0, s |-> <<>>]
IntCell(n) == [k |-> "int", v |-> n, s |-> <<>>]
FloatCell(n) == [k |-> "float", v |-> n, s |-> <<>>]
StrCell(str) == [k |-> "str", v |-> 0, s |-> str]

IsNull(c) == c.k = "nan"
IsNum(c) == c.k \in {"int", "float"}

\* the dtype pandas infers for a series of these cells
DType(ser) ==
    IF \E i \in DOMAIN ser : ser[i].k = "str" THEN "object"
    ELSE IF \E i \in DOMAIN ser : ser[i].k \in {"nan", "float"} THEN "float64"
    ELSE "int64"

\* series.dropna().empty
AllNull(series) == \A i \in DOMAIN series : IsNull(series[i])

\* str(x) of a cell, as astype('str') and map(str) give it
CellToStr(c) ==
    CASE c.k = "int" -> IntToStr(c.v)
      [] c.k = "float" -> FloatToStr(c.v)
      [] c.k = "str" -> c.s
      [] OTHER -> <<"n", "a", "n">>

----------------------------------------------------------------------------
(* condense_dichotomous_set: a DataFrame is [columns, rows], columns a     *)
(* sequence of names (strings), rows a sequence of rows of cells           *)

\* x in [yes, no]
InYesNo(x, yes, no) == IsNum(x) /\ (x.v = yes \/ x.v = no)

\* df.applymap(lambda x: x if x in [yes, no] else no)
ApplyYesNo(df, yes, no) ==
    [df EXCEPT !.rows =
        [i \in DOMAIN df.rows |->
            [j \in DOMAIN df.rows[i] |->
                IF InYesNo(df.rows[i][j], yes, no) THEN df.rows[i][j]
                ELSE IntCell(no)]]]

\* a column holding a float is a float64 column
ColumnIsFloat(df, j) == \E i \in DOMAIN df.rows : df.rows[i][j].k = "float"

\* df.astype('str'), cell (i, j)
AsTypeStr(df, i, j) ==
    IF ColumnIsFloat(df, j) THEN FloatToStr(df.rows[i][j].v)
    ELSE CellToStr(df.rows[i][j])

NanStr == <<"n", "a", "n">>

\* (mutation: the code is always the position)
ColumnCode_Positional(columns, j, values_from_labels) == IntToStr(j)

\* the code of column j: col.split('_')[-1], or str(v) of enumerate from 1
ColumnCode(columns, j, values_from_labels) ==
    IF values_from_labels THEN Last(Split(columns[j], "_")) ELSE IntToStr(j)

\* df_str[col].replace({'nan': 'nan', '<no>.0': 'nan', '<no>': 'nan'})
ReplaceNo(str, no) ==
    IF str \in {NanStr, FloatToStr(no), IntToStr(no)} THEN NanStr ELSE str

\* (mutation: the '<yes>.0' form is forgotten)
ReplaceYes_IntOnly(str, yes, v) == IF str = IntToStr(yes) THEN v ELSE str

\* df_str[col].replace({'<yes>': v, '<yes>.0': v})
ReplaceYes(str, yes, v) ==
    IF str \in {IntToStr(yes), FloatToStr(yes)} THEN v ELSE str

\* df_str[col] is one column, and replace(inplace=True) reaches df_str,
\* only when the name col occurs once among the columns
NameIsUnique(columns, j) ==
    Cardinality({k \in DOMAIN columns : columns[k] = columns[j]}) = 1

\* cell (i, j) of df_str after the loop over the columns
CategoricalCell(df, i, j, values_from_labels, yes, no) ==
    IF NameIsUnique(df.columns, j)
    THEN ReplaceYes(ReplaceNo(AsTypeStr(df, i, j), no), yes,
                    ColumnCode(df.columns, j, values_from_labels))
    ELSE AsTypeStr(df, i, j)

\* ';'.join([v for v in x.tolist() if v != 'nan']) + ';'
ConcatRow(df, i, values_from_labels, yes, no) ==
    LET cells == [j \in DOMAIN df.columns |->
                    CategoricalCell(df, i, j, values_from_labels, yes, no)]
    IN Join(SelectSeq(cells, LAMBDA v : v # NanStr), ";") \o <<";">>

\* (mutation: the bare delimiter is kept)
ReplaceEmpty_Keep(str) == StrCell(str)

\* series.replace({';': np.NaN})
ReplaceEmpty(str) == IF str = <<";">> THEN NaN ELSE StrCell(str)

\* df.sum(axis=1).max()
MaxRowSum(df) ==
    LET RECURSIVE SumRow(_, _)
        SumRow(row, j) == IF j = 0 THEN 0 ELSE row[j].v + SumRow(row, j - 1)
        sums == {SumRow(df.rows[i], Len(df.rows[i])) : i \in DOMAIN df.rows}
    IN CHOOSE m \in sums : \A x \in sums : x <= m

\* series.str.replace(';', ''), then astype('float'), of one cell
SniffCell(c) ==
    IF IsNull(c) THEN NaN
    ELSE FloatCell(IntOfFloatStr(SelectSeq(c.s, LAMBDA ch : ch # ";")))

\* what stands for a call that raised instead of returning a series
RaisedSeries == <<[k |-> "raised", v |-> 0, s |-> <<>>]>>

\* lines 345-354: what is returned for the frame df and the condensed series
CondenseReturn(df, series, sniff_single) ==
    IF Len(df.rows) = 0 \/ Len(df.columns) = 0 THEN series
    ELSE IF sniff_single /\ MaxRowSum(df) = 1
         THEN IF DType(series) = "object"
              THEN [i \in DOMAIN series |-> SniffCell(series[i])]
              ELSE RaisedSeries
    ELSE series

\* lines 294-354, df being the frame after applymap
CondenseApplied(df, values_from_labels, sniff_single, yes, no) ==
    CondenseReturn(
        df,
        [i \in DOMAIN df.rows |->
            ReplaceEmpty(ConcatRow(df, i, values_from_labels, yes, no))],
        sniff_single)

condense_dichotomous_set(df, values_from_labels, sniff_single, yes, no) ==
    CondenseApplied(ApplyYesNo(df, yes, no), values_from_labels, sniff_single,
                    yes, no)

----------------------------------------------------------------------------
(* dichotomous_from_delimited *)

\* sorted() of a set of strings
SortedStrs(set) ==
    LET RECURSIVE Build(_)
        Build(rest) ==
            IF rest = {} THEN <<>>
            ELSE LET m == CHOOSE x \in rest :
                            \A y \in rest \ {x} : StrLess(x, y)
                 IN <<m>> \o Build(rest \ {m})
    IN Build(set)

\* the tokens of every non-missing row: ds.dropna().str.split(sep)
AllTokens(ds, sep) ==
    UNION {Range(Split(ds[i].s, sep)) : i \in {r \in DOMAIN ds : ~IsNull(ds[r])}}

\* get_delimited_value_map: the unique tokens, the empty one dropped, sorted
StrCells(strs) == [j \in DOMAIN strs |-> StrCell(strs[j])]

get_delimited_value_map(ds, sep) ==
    StrCells(SortedStrs(AllTokens(ds, sep) \ {<<>>}))

\* (mutation: the piece after the trailing separator is kept)
RowLabels_KeepLast(cell, trailing_sep) ==
    IF IsNull(cell) THEN <<>> ELSE Split(cell.s, ";")

\* the labels one row sets: ds_split.loc[idx][:-1] or ds_split.loc[idx][:]
RowLabels(cell, trailing_sep) ==
    IF IsNull(cell) THEN <<>>
    ELSE IF trailing_sep THEN ButLast(Split(cell.s, ";"))
    ELSE Split(cell.s, ";")

\* lines 80-89: the frame over the given columns, or the KeyError of a
\* label that is no column
ExpandOver(ds, columns, trailing_sep, dichotom) ==
    IF \E i \in DOMAIN ds :
          \E t \in Range(RowLabels(ds[i], trailing_sep)) :
             StrCell(t) \notin Range(columns)
    THEN [raised |-> "KeyError", columns |-> <<>>, rows |-> <<>>]
    ELSE [raised |-> "none",
          columns |-> columns,
          rows |-> [i \in DOMAIN ds |->
                      [j \in DOMAIN columns |->
                         IF columns[j].k = "str"
                            /\ columns[j].s \in Range(RowLabels(ds[i], trailing_sep))
                         THEN dichotom[1] ELSE dichotom[2]]]]

\* value_map is [none, labels]: none for value_map=None, else labels is the
\* sequence of column labels (cells); the outcome is [raised, columns, rows]
dichotomous_from_delimited(ds, value_map, sep, trailing_sep, dichotom) ==
    IF DType(ds) # "object"
    THEN [raised |-> "AttributeError", columns |-> <<>>, rows |-> <<>>]
    ELSE ExpandOver(ds,
                    IF value_map.none THEN get_delimited_value_map(ds, sep)
                    ELSE value_map.labels,
                    trailing_sep, dichotom)

----------------------------------------------------------------------------
(* The normalisation step of recode_from_index_mapper: split the series   *)
(* into its dummies, order the columns numerically, condense again         *)

\* sorted() of a sequence of ints, duplicates kept
SortedInts(seq) == SortSeq(seq, LAMBDA a, b : a < b)

\* the dummies of the series over the given tags
DummiesOver(series, sep, tags) ==
    [columns |-> tags,
     rows |-> [i \in DOMAIN series |->
                 [j \in DOMAIN tags |->
                    IF ~IsNull(series[i])
                       /\ tags[j] \in Range(Split(series[i].s, sep))
                    THEN IntCell(1) ELSE IntCell(0)]]]

\* series.str.get_dummies(';'): columns are the sorted non-empty tags, a
\* cell is 1 where ';' + tag + ';' occurs in ';' + row + ';'
get_dummies(series, sep) ==
    DummiesOver(series, sep, SortedStrs(AllTokens(series, sep) \ {<<>>}))

RECURSIVE PickColumns(_, _, _)
\* the positions ds[cols] takes: every requested label selects every
\* column carrying it
PickColumns(columns, cols, k) ==
    IF k > Len(cols) THEN <<>>
    ELSE SelectSeq([j \in DOMAIN columns |-> j],
                   LAMBDA j : columns[j] = cols[k])
         \o PickColumns(columns, cols, k + 1)

\* the frame of the picked positions
TakeColumns(ds, picked) ==
    [columns |-> [k \in DOMAIN picked |-> ds.columns[picked[k]]],
     rows |-> [i \in DOMAIN ds.rows |->
                 [k \in DOMAIN picked |-> ds.rows[i][picked[k]]]]]

\* ds[cols]
SelectColumns(ds, cols) == TakeColumns(ds, PickColumns(ds.columns, cols, 1))

\* (mutation: the columns stay in the order get_dummies gave them)
NumericOrder_AsGiven(columns) == columns

\* the numeric order of the columns: sorted(ds.columns.tolist())
NumericOrder(columns) == SortedInts(columns)

\* ds.columns = [f(c) for c in ds.columns]
IntColumns(ds) ==
    [columns |-> [j \in DOMAIN ds.columns |-> IntOfFloatStr(ds.columns[j])],
     rows |-> ds.rows]
StrColumns(ds) ==
    [columns |-> [j \in DOMAIN ds.columns |-> IntToStr(ds.columns[j])],
     rows |-> ds.rows]

\* ds = ds[sorted(ds.columns.tolist())]
InNumericOrder(ds) == SelectColumns(ds, NumericOrder(ds.columns))

\* lines 899-906
Renormalise(series) ==
    condense_dichotomous_set(
        StrColumns(InNumericOrder(IntColumns(get_dummies(series, ";")))),
        TRUE, FALSE, 1, 0)

----------------------------------------------------------------------------
(* Logic resolution (quantipy.core.tools.view.logic): a logic is           *)
(* [shape, path, codes]: "has any of the codes", keyed by the columns of   *)
(* path from the outside in; shape tells a dict {column: logic} from a     *)
(* tuple (a bare condition or a compound).  Its index is the set of rows   *)
(* where the innermost column, or the series given, has any of the codes   *)

\* the codes a cell holds: the tokens of a delimited set, or the number
CellCodes(cell) ==
    CASE cell.k = "str" ->
            LET parts == Split(cell.s, ";")
            IN {IntOfFloatStr(parts[k]) : k \in {x \in DOMAIN parts : parts[x] # <<>>}}
      [] IsNum(cell) -> {cell.v}
      [] OTHER -> {}

\* has_any(codes): a condition that names no column
has_any(codes) == [shape |-> "tuple", path |-> <<>>, codes |-> codes]

\* {col: logic}
Keyed(col, logic) ==
    [shape |-> "dict", path |-> <<col>> \o logic.path, codes |-> logic.codes]

\* union([logic]): a compound of one branch
union(logic) == [logic EXCEPT !.shape = "tuple"]

\* every column the logic names is a column of the data
Resolvable(logic, data_) == \A k \in DOMAIN logic.path : logic.path[k] \in DOMAIN data_

RECURSIVE get_logic_index(_, _, _)
\* get_logic_index(series, logic, data_)[0]: a keyed logic is resolved on
\* the column it names, a condition on the series given
get_logic_index(series, logic, data_) ==
    IF logic.path = <<>>
    THEN {i \in DOMAIN series : CellCodes(series[i]) \cap logic.codes # {}}
    ELSE get_logic_index(data_[Head(logic.path)],
                         [logic EXCEPT !.path = Tail(logic.path)], data_)

\* intersection([a, b]) resolved: the rows of both
intersection(a_rows, b_rows) == a_rows \cap b_rows

----------------------------------------------------------------------------
(* index_mapper: a mapper is a sequence of [key, val] in the dict's        *)
(* iteration order; val is [kind, col, codes], kind "list" for a bare list *)
(* of codes, "dict" for the logic {col: has_any(codes)} and "tuple" for    *)
(* the compound union([{col: has_any(codes)}]); default is "None" or a     *)
(* column name, intersect is [none, col, codes], the logic                 *)
(* {col: has_any(codes)} unless none                                       *)

NoLogic == [none |-> TRUE, col |-> "None", codes |-> {}]

\* the logic a mapper value stands for as it is written
ValLogic(val) ==
    CASE val.kind = "dict" -> Keyed(val.col, has_any(val.codes))
      [] val.kind = "tuple" -> union(Keyed(val.col, has_any(val.codes)))
      [] OTHER -> has_any(val.codes)

\* (mutation: a bare list is left without its column)
KeyedLogic_Unkeyed(val, default) ==
    IF default = "None" \/ val.kind = "list" THEN ValLogic(val)
    ELSE Keyed(default, ValLogic(val))

\* lines 771-782: the entry of keyed_mapper for a mapper value
KeyedLogic(val, default) ==
    IF default = "None" THEN ValLogic(val)
    ELSE IF val.kind = "list" THEN Keyed(default, has_any(val.codes))
    ELSE Keyed(default, ValLogic(val))

\* line 789: value if isinstance(value, dict) else {default: value}
UnderDefault(value, default) ==
    IF value.shape = "dict" THEN value ELSE Keyed(default, value)

\* the logic of intersect
IntersectLogic(intersect) == Keyed(intersect.col, has_any(intersect.codes))

\* pd.Series(1, index=data.index)
Ones(data_) == [i \in DOMAIN data_["src"] |-> IntCell(1)]

\* lines 785-801: the index of one key
KeyIndex(data_, value, default, intersect) ==
    IF intersect.none THEN get_logic_index(Ones(data_), value, data_)
    ELSE intersection(
            get_logic_index(Ones(data_), IntersectLogic(intersect), data_),
            get_logic_index(Ones(data_), UnderDefault(value, default), data_))

\* the KeyError of a column that the logic of one key names and the data
\* does not have
KeyUnresolvable(data_, value, default, intersect) ==
    IF intersect.none THEN ~Resolvable(value, data_)
    ELSE \/ ~Resolvable(IntersectLogic(intersect), data_)
         \/ ~Resolvable(UnderDefault(value, default), data_)

index_mapper(meta_, data_, mapper, default, intersect) ==
    IF default = "None" /\ \E k \in DOMAIN mapper : mapper[k].val.kind = "list"
    THEN [raised |-> "TypeError", index_map |-> <<>>]
    ELSE IF \E k \in DOMAIN mapper :
               KeyUnresolvable(data_, KeyedLogic(mapper[k].val, default),
                               default, intersect)
         THEN [raised |-> "KeyError", index_map |-> <<>>]
    ELSE [raised |-> "none",
          index_map |->
            [k \in DOMAIN mapper |->
               [key |-> mapper[k].key,
                idx |-> KeyIndex(data_, KeyedLogic(mapper[k].val, default),
                                 default, intersect)]]]

----------------------------------------------------------------------------
(* join_delimited_set_series *)

\* one item of ds1 + ds2: strings concatenate, a missing operand gives missing
AddCells(a, b) ==
    IF a.k = "str" /\ b.k = "str" THEN StrCell(a.s \o b.s) ELSE NaN

\* one item of ds1.copy() updated with ds2.dropna()
UpdateCell(a, b) == IF IsNull(b) THEN a ELSE b

\* replace('', np.NaN) of one item
EmptyToNaN(c) == IF c = StrCell(<<>>) THEN NaN ELSE c

join_delimited_set_series(ds1, ds2, append) ==
    [i \in DOMAIN ds1 |->
        EmptyToNaN(IF append THEN AddCells(ds1[i], ds2[i])
                   ELSE UpdateCell(ds1[i], ds2[i]))]

----------------------------------------------------------------------------
(* recode_from_index_mapper *)

\* series.loc[not_null] = series.loc[not_null].map(str) + ';'
StringifyNotNull(series) ==
    [i \in DOMAIN series |->
        IF IsNull(series[i]) THEN NaN
        ELSE StrCell(CellToStr(series[i]) \o <<";">>)]

\* the value a scalar takes in a series of the given dtype
Coerce(n, dtype) == IF dtype = "float64" THEN FloatCell(n) ELSE IntCell(n)

\* the keys of the index map in iteration order
MapKeys(index_map) == [k \in DOMAIN index_map |-> index_map[k].key]

\* the 0/1 frame of lines 883-890: a column per sorted key (or per declared
\* value when the map is empty), 1 at the rows of each key's index
FrameOfCodes(codes, series, index_map) ==
    [columns |-> [j \in DOMAIN codes |-> IntToStr(codes[j])],
     rows |-> [i \in DOMAIN series |->
                 [j \in DOMAIN codes |->
                    IF \E k \in DOMAIN index_map :
                          index_map[k].key = codes[j] /\ i \in index_map[k].idx
                    THEN IntCell(1) ELSE IntCell(0)]]]

KeyFrame(meta_, name, series, index_map) ==
    FrameOfCodes(IF index_map # <<>> THEN SortedInts(MapKeys(index_map))
                 ELSE meta_[name].values,
                 series, index_map)

RECURSIVE AssignKeys_FirstWins(_, _, _)
\* (mutation: an earlier key is not overwritten by a later one)
AssignKeys_FirstWins(series, index_map, dtype) ==
    IF index_map = <<>> THEN series
    ELSE LET rest == AssignKeys_FirstWins(series, Tail(index_map), dtype)
         IN [i \in DOMAIN series |->
                IF i \in Head(index_map).idx
                THEN Coerce(Head(index_map).key, dtype) ELSE rest[i]]

RECURSIVE AssignKeys(_, _, _)
\* for key, idx in index_mapper.items(): series.loc[idx] = key
AssignKeys(series, index_map, dtype) ==
    IF index_map = <<>> THEN series
    ELSE AssignKeys(
            [i \in DOMAIN series |->
                IF i \in Head(index_map).idx
                THEN Coerce(Head(index_map).key, dtype) ELSE series[i]],
            Tail(index_map), dtype)

\* lines 894-906: the joined series is returned with a warning when it is
\* all missing, and renormalised otherwise; s1 is the series passed in
AfterJoin(s1, joined) ==
    IF AllNull(joined)
    THEN [raised |-> "none", warned |-> TRUE, series |-> joined,
          same |-> FALSE, seed |-> s1]
    ELSE [raised |-> "none", warned |-> FALSE, series |-> Renormalise(joined),
          same |-> FALSE, seed |-> s1]

\* lines 882-906, s1 being the series after line 881
RecodeDelimited(meta_, s1, name, index_map, append) ==
    AfterJoin(s1,
              join_delimited_set_series(
                 s1,
                 condense_dichotomous_set(KeyFrame(meta_, name, s1, index_map),
                                          TRUE, FALSE, 1, 0),
                 append))

\* lines 908-910: the keys are written into the series passed in
RecodeNumeric(s1) ==
    [raised |-> "none", warned |-> FALSE, series |-> s1, same |-> TRUE,
     seed |-> s1]

\* the outcome is [raised, warned, series, same, seed]: series is what is
\* returned, same tells that it is the object passed in, seed holds the
\* cells of the object passed in after the writes made to it in place
recode_from_index_mapper(meta_, series, name, index_map, append) ==
    IF meta_[name].type = "delimited set"
    THEN RecodeDelimited(meta_,
                         IF DType(series) \in {"int64", "float64"}
                         THEN StringifyNotNull(series) ELSE series,
                         name, index_map, append)
    ELSE IF meta_[name].type \in {"single", "int", "float"}
    THEN RecodeNumeric(AssignKeys(series, index_map, DType(series)))
    ELSE [raised |-> "TypeError", warned |-> FALSE, series |-> <<>>,
          same |-> FALSE, seed |-> series]

----------------------------------------------------------------------------
(* recode: a series object is [cells, aliasOf], aliasOf naming the column  *)
(* of data whose memory the object shares ("none" for a copy)              *)

\* (mutation: the column itself is handed on, not a copy)
SeriesCopy_View(data_, name) == [cells |-> data_[name], aliasOf |-> name]

\* data[name].copy()
SeriesCopy(data_, name) == [cells |-> data_[name], aliasOf |-> "none"]

\* pd.Series(np.NaN, index=data.index, copy=True)
EmptySeries(data_) ==
    [cells |-> [i \in DOMAIN data_["src"] |-> NaN], aliasOf |-> "none"]

\* lines 1027-1040; initialize is "None", "NaN" or a column name
SeedSeries(data_, target, initialize) ==
    IF initialize # "None"
    THEN IF initialize # "NaN" THEN SeriesCopy(data_, initialize)
         ELSE EmptySeries(data_)
    ELSE IF target \in DOMAIN data_ THEN SeriesCopy(data_, target)
    ELSE EmptySeries(data_)

NoFill == [none |-> TRUE, value |-> 0]

\* lines 1051-1056: series.fillna(...) by the type of the column
FillNa(series, col_type, fillna) ==
    IF fillna.none THEN series
    ELSE IF col_type = "single"
    THEN [i \in DOMAIN series |->
            IF IsNull(series[i]) THEN Coerce(fillna.value, DType(series))
            ELSE series[i]]
    ELSE IF col_type = "delimited set"
    THEN [i \in DOMAIN series |->
            IF IsNull(series[i]) THEN StrCell(IntToStr(fillna.value) \o <<";">>)
            ELSE series[i]]
    ELSE series

Failed(err, data_) ==
    [raised |-> err, warned |-> FALSE, series |-> <<>>, seed |-> <<>>,
     index_map |-> <<>>, data |-> data_]

\* line 1058: what recode returns and leaves behind; obj is the seeded
\* object, r the outcome of recode_from_index_mapper, final the series after
\* fillna (applied in place to the object r returned)
RecodeReturn(data_, index_map, obj, r, final) ==
    [raised |-> r.raised,
     warned |-> r.warned,
     series |-> IF r.raised = "none" THEN final ELSE <<>>,
     seed |-> obj.cells,
     index_map |-> index_map,
     data |-> IF obj.aliasOf = "none" THEN data_
              ELSE [data_ EXCEPT ![obj.aliasOf] = IF r.same THEN final ELSE r.seed]]

\* lines 1046-1058
RecodeFill(meta_, data_, target, index_map, obj, r, fillna) ==
    RecodeReturn(data_, index_map, obj, r,
                 FillNa(r.series, meta_[target].type, fillna))

\* lines 1042-1058
RecodeSeeded(meta_, data_, target, index_map, append, obj, fillna) ==
    RecodeFill(meta_, data_, target, index_map, obj,
               recode_from_index_mapper(meta_, obj.cells, target, index_map,
                                        append),
               fillna)

\* lines 1027-1058, im being the outcome of index_mapper
RecodeResolved(meta_, data_, target, im, append, initialize, fillna) ==
    IF im.raised # "none" THEN Failed(im.raised, data_)
    ELSE IF initialize \notin {"None", "NaN"} /\ initialize \notin DOMAIN data_
    THEN Failed("KeyError", data_)
    ELSE RecodeSeeded(meta_, data_, target, im.index_map, append,
                      SeedSeries(data_, target, initialize), fillna)

\* (mutation: append is not checked against the type of the target)
ConfigError_NoAppendCheck(meta_, target, default, append, initialize) ==
    IF target \notin DOMAIN meta_ THEN "ValueError"
    ELSE IF default # "None" /\ default \notin DOMAIN meta_ THEN "ValueError"
    ELSE IF initialize \notin {"None", "NaN"} /\ initialize \notin DOMAIN meta_
    THEN "ValueError"
    ELSE "none"

\* lines 980-1022: the error the configuration is refused with, or "none"
ConfigError(meta_, target, default, append, initialize) ==
    IF target \notin DOMAIN meta_ THEN "ValueError"
    ELSE IF append /\ meta_[target].type # "delimited set" THEN "TypeError"
    ELSE IF default # "None" /\ default \notin DOMAIN meta_ THEN "ValueError"
    ELSE IF initialize \notin {"None", "NaN"} /\ initialize \notin DOMAIN meta_
    THEN "ValueError"
    ELSE "none"

\* the outcome is [raised, warned, series, seed, index_map, data]: series is
\* what is returned, seed the series the recode started from, index_map the
\* resolved mapper and data the dataset as the call leaves it
recode(meta_, data_, target, mapper, default, append, intersect, initialize, fillna) ==
    IF ConfigError(meta_, target, default, append, initialize) # "none"
    THEN Failed(ConfigError(meta_, target, default, append, initialize), data_)
    ELSE RecodeResolved(meta_, data_, target,
                        index_mapper(meta_, data_, mapper, default, intersect),
                        append, initialize, fillna)

----------------------------------------------------------------------------
(* Metadata merge: a text is a function locale -> label, a value is        *)
(* [value, text], a value list a sequence of values, a column a record     *)
(* with name, type, text and, for the categorical ones, values             *)

MaxVals == 2

\* merge_text_meta: left_text.update(right_text), or the unknown keys only
merge_text_meta(left_text, right_text, overwrite) ==
    [tk \in DOMAIN left_text \cup DOMAIN right_text |->
        IF tk \notin DOMAIN left_text THEN right_text[tk]
        ELSE IF overwrite /\ tk \in DOMAIN right_text THEN right_text[tk]
        ELSE left_text[tk]]

\* (mutation: a value of the right is appended whether known or not)
MergeValue_Append(left_values, val_right, overwrite) ==
    Append(left_values, val_right)

\* lines 1078-1087: one value of the right merged into the left values
MergeValue(left_values, val_right, overwrite) ==
    IF \E i \in DOMAIN left_values : left_values[i].value = val_right.value
    THEN [i \in DOMAIN left_values |->
            IF left_values[i].value = val_right.value
            THEN [left_values[i] EXCEPT
                     !.text = merge_text_meta(@, val_right.text, overwrite)]
            ELSE left_values[i]]
    ELSE Append(left_values, val_right)

RECURSIVE merge_values_meta(_, _, _)
\* for val_right in right_values: ...
merge_values_meta(left_values, right_values, overwrite) ==
    IF right_values = <<>> THEN left_values
    ELSE merge_values_meta(MergeValue(left_values, Head(right_values), overwrite),
                           Tail(right_values), overwrite)

\* [v['value'] for v in values]
Ids(values) == [i \in DOMAIN values |-> values[i].value]

all_types ==
    {"array", "int", "float", "single", "delimited set", "string", "date",
     "time", "boolean"}

\* err.get(l_type, all_types)
err(l_type) ==
    CASE l_type = "array" -> all_types
      [] l_type = "int" ->
            {"float", "delimited set", "string", "date", "time", "array"}
      [] l_type = "float" -> {"delimited set", "string", "date", "time", "array"}
      [] l_type = "single" -> all_types
      [] l_type = "delimited set" ->
            {"string", "date", "time", "array", "int", "float"}
      [] l_type = "string" ->
            {"int", "float", "single", "delimited set", "date", "time", "array"}
      [] l_type = "date" ->
            {"int", "float", "single", "delimited set", "string", "time", "array"}
      [] l_type = "time" ->
            {"int", "float", "single", "delimited set", "string", "time", "array"}
      [] OTHER -> all_types

\* warn.get(l_type, all_types)
warn(l_type) ==
    CASE l_type = "int" -> {"single"}
      [] l_type = "float" -> {"int", "single"}
      [] l_type = "delimited set" -> {"single"}
      [] l_type = "string" -> {"boolean"}
      [] OTHER -> all_types

\* the format arguments of the messages
Named(left_column, right_column) ==
    <<left_column.name, left_column.type, right_column.type>>

\* (mutation: the types are compared in the other direction)
compatible_types_Undirected(left_column, right_column) ==
    IF left_column.type = right_column.type
    THEN [raised |-> "none", warned |-> FALSE, msg |-> <<>>]
    ELSE IF left_column.type \in err(right_column.type)
    THEN [raised |-> "TypeError", warned |-> FALSE,
          msg |-> Named(left_column, right_column)]
    ELSE IF left_column.type \in warn(right_column.type)
    THEN [raised |-> "none", warned |-> TRUE,
          msg |-> Named(left_column, right_column)]
    ELSE [raised |-> "TypeError", warned |-> FALSE,
          msg |-> Named(left_column, right_column)]

\* _compatible_types: what is raised, whether a warning is emitted, and the
\* names the message carries
compatible_types(left_column, right_column) ==
    IF left_column.type = right_column.type
    THEN [raised |-> "none", warned |-> FALSE, msg |-> <<>>]
    ELSE IF right_column.type \in err(left_column.type)
    THEN [raised |-> "TypeError", warned |-> FALSE,
          msg |-> Named(left_column, right_column)]
    ELSE IF right_column.type \in warn(left_column.type)
    THEN [raised |-> "none", warned |-> TRUE,
          msg |-> Named(left_column, right_column)]
    ELSE [raised |-> "TypeError", warned |-> FALSE,
          msg |-> Named(left_column, right_column)]

\* lines 1096-1105: the left column with the text and the values merged
MergedColumn(left_column, right_column, overwrite) ==
    IF "values" \in DOMAIN left_column /\ "values" \in DOMAIN right_column
    THEN [left_column EXCEPT
             !.text = merge_text_meta(@, right_column.text, overwrite),
             !.values = merge_values_meta(@, right_column.values, overwrite)]
    ELSE [left_column EXCEPT
             !.text = merge_text_meta(@, right_column.text, overwrite)]

\* lines 1095-1105, checked being the outcome of _compatible_types
ColumnOutcome(checked, left_column, right_column, overwrite) ==
    IF checked.raised # "none"
    THEN [raised |-> checked.raised, warned |-> FALSE, msg |-> checked.msg,
          column |-> left_column]
    ELSE [raised |-> "none", warned |-> checked.warned, msg |-> checked.msg,
          column |-> MergedColumn(left_column, right_column, overwrite)]

\* the outcome is [raised, warned, msg, column]
merge_column_metadata(left_column, right_column, overwrite) ==
    ColumnOutcome(compatible_types(left_column, right_column),
                  left_column, right_column, overwrite)

----------------------------------------------------------------------------
(* merge_meta: a document is [columns, masks, sets, lib], each an ordered  *)
(* dict held as the sequence of its entries, every entry carrying its key  *)
(* as name.  A source 'columns@a' is [kind, name].  A column holds its     *)
(* values as a list (values) or as a reference into lib (values_ref); a    *)
(* mask is [name, text, items, values], items a sequence of [source,       *)
(* text]; a set is [name, items], items a sequence of sources              *)

\* key in d, d[key], d[key] = entry for an ordered dict
Has(d, key) == \E i \in DOMAIN d : d[i].name = key
Get(d, key) == d[CHOOSE i \in DOMAIN d : d[i].name = key]
Put(d, entry) ==
    IF Has(d, entry.name)
    THEN [i \in DOMAIN d |-> IF d[i].name = entry.name THEN entry ELSE d[i]]
    ELSE Append(d, entry)

Source(kind, name) == [kind |-> kind, name |-> name]

\* a record without the field / with the field set
Without(rec, field) == [k \in DOMAIN rec \ {field} |-> rec[k]]
With(rec, field, value) ==
    [k \in DOMAIN rec \cup {field} |-> IF k = field THEN value ELSE rec[k]]

RECURSIVE uniquify_list(_)
\* the list without its repeats, the first of each kept
uniquify_list(l) ==
    IF l = <<>> THEN <<>>
    ELSE LET rest == uniquify_list(ButLast(l))
         IN IF Last(l) \in Range(rest) THEN rest ELSE Append(rest, Last(l))

\* emulate_meta(meta, column): the column with a reference into lib
\* replaced by the list it names
emulate_meta(meta_, column) ==
    IF "values_ref" \in DOMAIN column
    THEN With(Without(column, "values_ref"), "values",
              Get(meta_.lib, column.values_ref).values)
    ELSE column

\* lines 1209-1214: the names of the columns among the items of a mask
MaskColumns(mask) ==
    [k \in DOMAIN SelectSeq(mask.items, LAMBDA it : it.source.kind = "columns") |->
        SelectSeq(mask.items, LAMBDA it : it.source.kind = "columns")[k].source.name]

RECURSIVE SetColumns(_, _)
\* lines 1200-1214: cols before uniquify_list
SetColumns(meta_right, items) ==
    IF items = <<>> THEN <<>>
    ELSE (IF Head(items).kind = "columns" THEN <<Head(items).name>>
          ELSE IF Head(items).kind = "masks"
          THEN MaskColumns(Get(meta_right.masks, Head(items).name))
          ELSE <<>>)
         \o SetColumns(meta_right, Tail(items))

\* lines 1200-1208: masks
SetMasks(items) ==
    [k \in DOMAIN SelectSeq(items, LAMBDA it : it.kind = "masks") |->
        SelectSeq(items, LAMBDA it : it.kind = "masks")[k].name]

\* lines 1213-1214: mask_items, the mask whose values each column refers to
\* (the last such mask of the set), or "none"
MaskOf(meta_right, masks, col) ==
    IF \E k \in DOMAIN masks :
          /\ col \in Range(MaskColumns(Get(meta_right.masks, masks[k])))
          /\ Get(meta_right.masks, masks[k]).values
    THEN masks[CHOOSE k \in DOMAIN masks :
            /\ col \in Range(MaskColumns(Get(meta_right.masks, masks[k])))
            /\ Get(meta_right.masks, masks[k]).values
            /\ \A j \in DOMAIN masks :
                  (/\ col \in Range(MaskColumns(Get(meta_right.masks, masks[j])))
                   /\ Get(meta_right.masks, masks[j]).values) => j <= k]
    ELSE "none"

\* lines 1159-1161, 1169-1171: the texts of new put into old
UpdateText(old_text, new_text, overwrite) ==
    [tk \in DOMAIN old_text \cup DOMAIN new_text |->
        IF tk \in DOMAIN new_text /\ (tk \notin DOMAIN old_text \/ overwrite)
        THEN new_text[tk] ELSE old_text[tk]]

\* lines 1162-1182: one item of the new mask put into the left document
UpdateItem(left_meta, mask, item, overwrite) ==
    IF \E k \in DOMAIN Get(left_meta.masks, mask).items :
          Get(left_meta.masks, mask).items[k].source = item.source
    THEN [left_meta EXCEPT !.masks =
            Put(@, [Get(@, mask) EXCEPT !.items =
                      [k \in DOMAIN @ |->
                         IF @[k].source = item.source
                         THEN [@[k] EXCEPT
                                  !.text = UpdateText(@, item.text, overwrite)]
                         ELSE @[k]]])]
    ELSE [left_meta EXCEPT
            !.masks = Put(@, [Get(@, mask) EXCEPT !.items = Append(@, item)]),
            !.sets = Put(@, [Get(@, mask) EXCEPT !.items = Append(@, item.source)])]

RECURSIVE UpdateItems(_, _, _, _)
UpdateItems(left_meta, mask, items, overwrite) ==
    IF items = <<>> THEN left_meta
    ELSE UpdateItems(UpdateItem(left_meta, mask, Head(items), overwrite),
                     mask, Tail(items), overwrite)

\* _update_mask_meta for one mask
update_mask_meta(left_meta, right_meta, mask, overwrite) ==
    UpdateItems(
        [left_meta EXCEPT !.masks =
            Put(@, [Get(@, mask) EXCEPT
                      !.text = UpdateText(@, Get(right_meta.masks, mask).text,
                                          overwrite)])],
        mask, Get(right_meta.masks, mask).items, overwrite)

RECURSIVE MergeMasks(_, _, _, _)
\* lines 1217-1225
MergeMasks(meta_left, meta_right, masks, overwrite) ==
    IF masks = <<>> THEN meta_left
    ELSE MergeMasks(
            IF ~Has(meta_left.masks, Head(masks))
            THEN [meta_left EXCEPT
                     !.masks = Append(@, Get(meta_right.masks, Head(masks)))]
            ELSE update_mask_meta(meta_left, meta_right, Head(masks), overwrite),
            meta_right, Tail(masks), overwrite)

\* the place of a set name in sorted()
NameRank(name) ==
    CASE name = "data file" -> 1
      [] name = "m" -> 2
      [] name = "wave" -> 3
      [] OTHER -> 4

\* lines 1227-1233: the sets of the right that the left lacks, added in
\* sorted order
MergeSets(meta_left, meta_right) ==
    [meta_left EXCEPT !.sets =
        @ \o SortSeq(SelectSeq(meta_right.sets,
                               LAMBDA st : ~Has(meta_left.sets, st.name)),
                     LAMBDA x, y : NameRank(x.name) < NameRank(y.name))]

\* (mutation: an entry of the left is overwritten by that of the right)
MergeLibEntry_Overwrite(left_lib, entry) == Put(left_lib, entry)

\* lines 1236-1250: one entry of the right lib.values put into the left's
MergeLibEntry(left_lib, entry) ==
    IF ~Has(left_lib, entry.name) THEN Append(left_lib, entry)
    ELSE IF entry.name = "ddf" \/ Get(left_lib, entry.name) = entry THEN left_lib
    ELSE Put(left_lib,
             [Get(left_lib, entry.name) EXCEPT !.values =
                 @ \o SelectSeq(entry.values,
                                LAMBDA v : v.value \notin Range(Ids(@)))])

RECURSIVE MergeLib(_, _)
\* lines 1235-1250
MergeLib(left_lib, right_lib) ==
    IF right_lib = <<>> THEN left_lib
    ELSE MergeLib(MergeLibEntry(left_lib, Head(right_lib)), Tail(right_lib))

\* meta_right['columns'][col_name].get('properties', {})
PropsOf(column) ==
    IF "properties" \in DOMAIN column THEN column.properties ELSE <<>>

\* lines 1284-1287: the right column marked as merged
AddedColumn(right_column) ==
    With(right_column, "properties", With(PropsOf(right_column), "merged", TRUE))

\* lines 1290-1291: properties.update(props)
UpdateProps(column, props) ==
    IF "properties" \in DOMAIN column
    THEN With(column, "properties",
              [k \in DOMAIN column.properties \cup DOMAIN props |->
                  IF k \in DOMAIN props THEN props[k] ELSE column.properties[k]])
    ELSE column

\* lines 1292-1293: the values of a mask's column refer to the mask's list
ReferTo(column, mask) ==
    IF mask = "none" THEN column
    ELSE With(Without(column, "values"), "values_ref", mask)

\* lines 1290-1293 for the column as merged or added
StoredColumn(column, props, mask) == ReferTo(UpdateProps(column, props), mask)

\* the loop state after a column that is in the left: merged being the
\* outcome of merge_column_metadata
AfterUpdate(st, merged, props, mask) ==
    IF merged.raised # "none"
    THEN [st EXCEPT !.raised = merged.raised, !.msg = merged.msg]
    ELSE [st EXCEPT
            !.meta.columns = Put(@, StoredColumn(merged.column, props, mask)),
            !.col_updates = Append(@, merged.column.name),
            !.warned = @ \/ merged.warned]

\* the loop state after a column that is new to the left
AfterAdd(st, column) == [st EXCEPT !.meta.columns = Put(@, column)]

\* lines 1261-1293: one column of cols
MergeOneColumn(st, meta_right, col_name, mask, overwrite) ==
    IF st.raised # "none" THEN st
    ELSE IF Has(st.meta.columns, col_name)
    THEN AfterUpdate(
            st,
            merge_column_metadata(
                emulate_meta(st.meta, Get(st.meta.columns, col_name)),
                emulate_meta(meta_right, Get(meta_right.columns, col_name)),
                overwrite),
            PropsOf(Get(meta_right.columns, col_name)), mask)
    ELSE AfterAdd(
            st,
            StoredColumn(
                AddedColumn(emulate_meta(meta_right,
                                         Get(meta_right.columns, col_name))),
                PropsOf(Get(meta_right.columns, col_name)), mask))

RECURSIVE MergeColumns(_, _, _, _, _)
\* lines 1260-1293
MergeColumns(st, meta_right, cols, masks, overwrite) ==
    IF cols = <<>> THEN st
    ELSE MergeColumns(
            MergeOneColumn(st, meta_right, Head(cols),
                           MaskOf(meta_right, masks, Head(cols)), overwrite),
            meta_right, Tail(cols), masks, overwrite)

RECURSIVE AppendItems(_, _)
\* (mutation: every item of the right is appended)
AppendItems_All(items, new_items) == items \o new_items

\* lines 1295-1297: the items the list does not hold yet are appended
AppendItems(items, new_items) ==
    IF new_items = <<>> THEN items
    ELSE AppendItems(IF Head(new_items) \in Range(items) THEN items
                     ELSE Append(items, Head(new_items)),
                     Tail(new_items))

\* lines 1200-1215: cols
ColumnsToMerge(meta_right, from_set) ==
    uniquify_list(SetColumns(meta_right, Get(meta_right.sets, from_set).items))

\* lines 1295-1306: the data file set completed, and what is returned
MergeReturn(st, meta_right, from_set) ==
    IF st.raised # "none" THEN st
    ELSE [st EXCEPT !.meta.sets =
            Put(@, [Get(@, "data file") EXCEPT !.items =
                      AppendItems(@, Get(meta_right.sets, from_set).items)])]

\* lines 1216-1250: the masks, sets and lib.values of the right merged in
MergeParts(meta_left, meta_right, masks, overwrite) ==
    [MergeSets(MergeMasks(meta_left, meta_right, masks, overwrite), meta_right)
        EXCEPT !.lib = MergeLib(@, meta_right.lib)]

\* the loop state before the first column
StartState(meta_, cols) ==
    [raised |-> "none", warned |-> FALSE, msg |-> <<>>, meta |-> meta_,
     cols |-> cols, col_updates |-> <<>>]

\* line 1258 leaves cols None (list.sort() returns None), and line 1261
\* raises on it
NoSetFound(meta_left) ==
    [raised |-> "TypeError", warned |-> FALSE, msg |-> <<>>, meta |-> meta_left,
     cols |-> <<>>, col_updates |-> <<>>]

\* lines 1194-1306 for from_set as a name
MergeFrom(meta_left, meta_right, from_set, overwrite_text) ==
    IF Has(meta_right.sets, from_set)
    THEN MergeReturn(
            MergeColumns(
                StartState(
                    MergeParts(meta_left, meta_right,
                               SetMasks(Get(meta_right.sets, from_set).items),
                               overwrite_text),
                    ColumnsToMerge(meta_right, from_set)),
                meta_right, ColumnsToMerge(meta_right, from_set),
                SetMasks(Get(meta_right.sets, from_set).items), overwrite_text),
            meta_right, from_set)
    ELSE NoSetFound(meta_left)

\* the outcome is [raised, warned, msg, meta, cols, col_updates]: meta is the
\* left document as the call leaves it
merge_meta(meta_left, meta_right, from_set, overwrite_text) ==
    MergeFrom(meta_left, meta_right,
              IF from_set = "None" THEN "data file" ELSE from_set, overwrite_text)

----------------------------------------------------------------------------
(* get_columns_from_mask, get_columns_from_set                             *)

\* item['source'] of a mask item, the item itself in a set
ItemSources(meta_, kind, name) ==
    IF kind = "sets" THEN Get(meta_.sets, name).items
    ELSE [k \in DOMAIN Get(meta_.masks, name).items |->
            Get(meta_.masks, name).items[k].source]

\* meta['sets'][name] / meta['masks'][name] exists
Known(meta_, kind, name) ==
    IF kind = "sets" THEN Has(meta_.sets, name) ELSE Has(meta_.masks, name)

RECURSIVE ColumnsFrom(_, _)
RECURSIVE get_columns_from(_, _, _)
\* lines 1313-1324 and 1333-1344: the loop over the items, on a document
\* whose references from here on hold no cycle
ColumnsFrom(meta_, sources) ==
    IF sources = <<>> THEN <<>>
    ELSE (IF Head(sources).kind = "columns" THEN <<Head(sources).name>>
          ELSE get_columns_from(meta_, Head(sources).kind, Head(sources).name))
         \o ColumnsFrom(meta_, Tail(sources))

\* what a call returns: the set form without the repeats (line 1346)
FrameResult(kind, cols) == IF kind = "sets" THEN uniquify_list(cols) ELSE cols

get_columns_from(meta_, kind, name) ==
    FrameResult(kind, ColumnsFrom(meta_, ItemSources(meta_, kind, name)))

get_columns_from_mask(meta_, mask_name) == get_columns_from(meta_, "masks", mask_name)

get_columns_from_set(meta_, set_name) == get_columns_from(meta_, "sets", set_name)

\* a call in progress: the mask or set, the item it stands at, its cols
Frame(kind, name) == [kind |-> kind, name |-> name, pos |-> 1, cols |-> <<>>]

\* the frames after the innermost call returned result to its caller
Returned_Prepend(frames, result) ==
    [ButLast(frames) EXCEPT ![Len(frames) - 1] =
        [@ EXCEPT !.cols = result \o @, !.pos = @ + 1]]

Returned(frames, result) ==
    [ButLast(frames) EXCEPT ![Len(frames) - 1] =
        [@ EXCEPT !.cols = @ \o result, !.pos = @ + 1]]

----------------------------------------------------------------------------
(* hmerge                                                                  *)
(*                                                                         *)
(* A dataset is [meta, data]; data is a DataFrame [columns, rows] under    *)
(* the default index 0..n-1, a row the cells under the columns.  None is   *)
(* the string "None"; merge_existing is [all, names]                       *)

NoData == [columns |-> <<>>, rows |-> <<>>]

\* c in df.columns, the place of c, and df[c]
HasColumn(df, c) == c \in Range(df.columns)
ColumnAt(df, c) ==
    CHOOSE j \in DOMAIN df.columns :
        df.columns[j] = c /\ \A k \in 1..(j - 1) : df.columns[k] # c
ColumnSeries(df, c) == [i \in DOMAIN df.rows |-> df.rows[i][ColumnAt(df, c)]]

\* df[cols]
Take(df, cols) ==
    [columns |-> cols,
     rows |-> [i \in DOMAIN df.rows |->
                 [j \in DOMAIN cols |-> df.rows[i][ColumnAt(df, cols[j])]]]]

\* two key values are the same key (1 == 1.0; pandas matches NaN to NaN)
KeyEq(a, b) == IF IsNum(a) /\ IsNum(b) THEN a.v = b.v ELSE a = b

\* lines 1485-1496: the join keys, or what the arguments raise
KeyArgs(on, left_on, right_on) ==
    IF on = "None" /\ left_on = "None" /\ right_on = "None"
    THEN [raised |-> "TypeError", left_on |-> left_on, right_on |-> right_on]
    ELSE IF on # "None" /\ ~(left_on = "None" /\ right_on = "None")
    THEN [raised |-> "ValueError", left_on |-> left_on, right_on |-> right_on]
    ELSE IF on = "None" /\ (left_on = "None" \/ right_on = "None")
    THEN [raised |-> "TypeError", left_on |-> left_on, right_on |-> right_on]
    ELSE IF on # "None"
    THEN [raised |-> "none", left_on |-> on, right_on |-> on]
    ELSE [raised |-> "none", left_on |-> left_on, right_on |-> right_on]

\* lines 1505-1506: the right rows whose key is a key of the left
Slice(data_right, right_on, data_left, left_on) ==
    [data_right EXCEPT !.rows =
        SelectSeq(@, LAMBDA row :
            \E i \in DOMAIN data_left.rows :
                KeyEq(row[ColumnAt(data_right, right_on)],
                      data_left.rows[i][ColumnAt(data_left, left_on)]))]

\* lines 1519-1521: col_updates.remove(left_on) when left_on == right_on
ColUpdates(col_updates, left_on, right_on) ==
    IF left_on = right_on THEN SelectSeq(col_updates, LAMBDA c : c # left_on)
    ELSE col_updates

\* lines 1522-1525
update_right_on(col_updates, left_on, right_on) ==
    left_on # right_on /\ right_on \in Range(col_updates)

\* the index of updata_right holds a key twice / equals that of updata_left
DuplicatedKeys(df, key) ==
    \E i, j \in DOMAIN df.rows :
        i # j /\ KeyEq(ColumnSeries(df, key)[i], ColumnSeries(df, key)[j])
SameIndex(data_left, data_right, left_on, right_on) ==
    /\ Len(data_left.rows) = Len(data_right.rows)
    /\ \A i \in DOMAIN data_left.rows :
          KeyEq(ColumnSeries(data_left, left_on)[i],
                ColumnSeries(data_right, right_on)[i])

\* lines 1534-1543: what the selection of col_updates on either side and
\* DataFrame.update raise: the key is no column after set_index, and
\* update reindexes the right like the left, which pandas refuses on an
\* index with duplicates unless the two indexes are equal
UpdateError(data_left, data_right, col_updates, left_on, right_on) ==
    IF \E c \in Range(col_updates) : ~HasColumn(data_left, c) \/ c = left_on
    THEN "KeyError"
    ELSE IF \E c \in Range(col_updates) : ~HasColumn(data_right, c)
    THEN "KeyError"
    ELSE IF /\ DuplicatedKeys(data_right, right_on)
            /\ ~SameIndex(data_left, data_right, left_on, right_on)
    THEN "ValueError"
    ELSE "none"

\* the right row aligned with left row i (0: none): by position when the
\* indexes are equal, by key otherwise
AlignedRow(data_left, data_right, left_on, right_on, i) ==
    IF SameIndex(data_left, data_right, left_on, right_on) THEN i
    ELSE IF \E j \in DOMAIN data_right.rows :
               KeyEq(ColumnSeries(data_right, right_on)[j],
                     ColumnSeries(data_left, left_on)[i])
    THEN CHOOSE j \in DOMAIN data_right.rows :
               KeyEq(ColumnSeries(data_right, right_on)[j],
                     ColumnSeries(data_left, left_on)[i])
    ELSE 0

\* str(x) of a combined item with 'nan' replaced by '': None where the
\* other series has no such key
ItemStr(data_, col, j) ==
    IF j = 0 THEN <<"N", "o", "n", "e">>
    ELSE IF IsNull(ColumnSeries(data_, col)[j]) THEN <<>>
    ELSE CellToStr(ColumnSeries(data_, col)[j])

\* lines 1472-1483: _merge_delimited_sets
merge_delimited_sets(x) ==
    IF {c \in Range(Split(x, ";")) : c # <<>>} = {} THEN NaN
    ELSE StrCell(Join(SortedStrs({c \in Range(Split(x, ";")) : c # <<>>}), ";")
                 \o <<";">>)

\* lines 1544-1552: col is a set merge_existing names
Flagged(merge_existing, col) ==
    merge_existing.all \/ col \in Range(merge_existing.names)

\* lines 1538-1552: cell (i, col) of updata_left after update and combine
UpdatedCell(data_left, data_right, meta_left, merge_existing, col, i, j) ==
    IF Get(meta_left.columns, col).type # "delimited set"
    THEN IF j = 0 THEN ColumnSeries(data_left, col)[i]
         ELSE UpdateCell(ColumnSeries(data_left, col)[i],
                         ColumnSeries(data_right, col)[j])
    ELSE IF Flagged(merge_existing, col)
    THEN merge_delimited_sets(ItemStr(data_left, col, i)
                              \o ItemStr(data_right, col, j))
    ELSE ColumnSeries(data_left, col)[i]

\* lines 1534-1553: updata_left, under the columns of data_left
Updated(data_left, data_right, meta_left, col_updates, left_on, right_on, merge_existing) ==
    [data_left EXCEPT !.rows =
        [i \in DOMAIN data_left.rows |->
            [c \in DOMAIN data_left.columns |->
                IF data_left.columns[c] \in Range(col_updates)
                THEN UpdatedCell(data_left, data_right, meta_left,
                                 merge_existing, data_left.columns[c], i,
                                 AlignedRow(data_left, data_right,
                                            left_on, right_on, i))
                ELSE data_left.rows[i][c]]]]

\* line 1555: astype raises on a string or a NaN for an integer column, a
\* string for a float column
AsTypeFails(data_left, updated) ==
    \E c \in DOMAIN data_left.columns :
        \E i \in DOMAIN updated.rows :
            \/ /\ DType(ColumnSeries(data_left, data_left.columns[c])) = "int64"
               /\ ~IsNum(updated.rows[i][c])
            \/ /\ DType(ColumnSeries(data_left, data_left.columns[c])) = "float64"
               /\ updated.rows[i][c].k = "str"

\* line 1555: data_left[col] = updata_left[col].astype(data_left[col].dtype)
AsType(data_left, updated) ==
    [updated EXCEPT !.rows =
        [i \in DOMAIN updated.rows |->
            [c \in DOMAIN updated.columns |->
                IF IsNum(updated.rows[i][c])
                THEN Coerce(updated.rows[i][c].v,
                            DType(ColumnSeries(data_left, data_left.columns[c])))
                ELSE updated.rows[i][c]]]]

\* lines 1560-1562
new_cols(cols, col_updates, left_on, right_on) ==
    SelectSeq(cols, LAMBDA c : c \notin Range(col_updates))
    \o (IF update_right_on(col_updates, left_on, right_on) THEN <<right_on>>
        ELSE <<>>)

\* DataFrame.merge: the columns of the right that stand in the result (a
\* key of the same name on both sides is one column)
RightKept(right_, left_on, right_on) ==
    IF left_on = right_on THEN SelectSeq(right_.columns, LAMBDA c : c # right_on)
    ELSE right_.columns

\* DataFrame.merge: a name on both sides is suffixed on both
Suffixed(columns, others, suffix) ==
    [j \in DOMAIN columns |->
        IF columns[j] \in Range(others) THEN columns[j] \o suffix
        ELSE columns[j]]

\* DataFrame.merge(how='left'): one row per right row of the key, in the
\* order of the right, or one row of NaN
JoinRow(lrow, right_, kept, matches) ==
    IF matches = <<>> THEN << lrow \o [j \in DOMAIN kept |-> NaN] >>
    ELSE [m \in DOMAIN matches |->
            lrow \o [j \in DOMAIN kept |->
                        matches[m][ColumnAt(right_, kept[j])]]]

RECURSIVE JoinRows(_, _, _, _, _, _)
\* DataFrame.merge(how='left'): the rows, in the order of the left
JoinRows(lrows, left_, right_, left_on, right_on, kept) ==
    IF lrows = <<>> THEN <<>>
    ELSE JoinRow(Head(lrows), right_, kept,
                 SelectSeq(right_.rows, LAMBDA row :
                     KeyEq(row[ColumnAt(right_, right_on)],
                           Head(lrows)[ColumnAt(left_, left_on)])))
         \o JoinRows(Tail(lrows), left_, right_, left_on, right_on, kept)

\* an integer column of the right that received a NaN is a float column
Upcast(rows, nleft) ==
    [i \in DOMAIN rows |->
        [j \in DOMAIN rows[i] |->
            IF /\ j > nleft
               /\ rows[i][j].k = "int"
               /\ \E r \in DOMAIN rows : IsNull(rows[r][j])
            THEN FloatCell(rows[i][j].v)
            ELSE rows[i][j]]]

\* the frame DataFrame.merge returns for the kept columns of the right
Merged(left_, right_, left_on, right_on, kept) ==
    [columns |-> Suffixed(left_.columns, kept, "_x")
                 \o Suffixed(kept, left_.columns, "_y"),
     rows |-> Upcast(JoinRows(left_.rows, left_, right_, left_on, right_on, kept),
                     Len(left_.columns))]

\* line 1568: data_left.merge(right_, left_on=, right_on=, how='left')
merge(left_, right_, left_on, right_on) ==
    Merged(left_, right_, left_on, right_on, RightKept(right_, left_on, right_on))

\* DataFrame.drop(name, axis=1)
Drop(df, name) ==
    Take(df, SelectSeq(df.columns, LAMBDA c : c # name))

\* lines 1570-1575: <right_on>_x is renamed right_on, <right_on>_y dropped
CleanKey(df, right_on) ==
    [Drop(df, right_on \o "_y") EXCEPT !.columns =
        [j \in DOMAIN @ |-> IF @[j] = right_on \o "_x" THEN right_on ELSE @[j]]]

\* what hmerge returns or raises
HResult(raised, meta_, data_) == [raised |-> raised, meta |-> meta_, data |-> data_]
HFailed(error) == HResult(error, <<>>, NoData)

\* lines 1557-1577: the new columns appended, and the return
HAppended(data_left, data_right, meta_left, added, left_on, right_on, clean) ==
    IF \E c \in Range(added) : ~HasColumn(data_right, c) THEN HFailed("KeyError")
    ELSE IF right_on \notin Range(added) THEN HFailed("KeyError")
    ELSE HResult("none", meta_left,
                 IF clean
                 THEN CleanKey(merge(data_left, Take(data_right, added),
                                     left_on, right_on), right_on)
                 ELSE merge(data_left, Take(data_right, added),
                            left_on, right_on))

\* line 1555, then lines 1557-1577
HCast(data_left, updated, data_right, meta_left, added, left_on, right_on, clean) ==
    IF AsTypeFails(data_left, updated) THEN HFailed("ValueError")
    ELSE HAppended(AsType(data_left, updated), data_right, meta_left, added,
                   left_on, right_on, clean)

\* lines 1530-1577
HUpdated(data_left, data_right, meta_left, cols, col_updates, left_on, right_on, merge_existing) ==
    IF col_updates = <<>>
    THEN HAppended(data_left, data_right, meta_left,
                   new_cols(cols, col_updates, left_on, right_on),
                   left_on, right_on, FALSE)
    ELSE IF UpdateError(data_left, data_right, col_updates, left_on, right_on) # "none"
    THEN HFailed(UpdateError(data_left, data_right, col_updates, left_on, right_on))
    ELSE HCast(data_left,
               Updated(data_left, data_right, meta_left, col_updates,
                       left_on, right_on, merge_existing),
               data_right, meta_left,
               new_cols(cols, col_updates, left_on, right_on),
               left_on, right_on,
               update_right_on(col_updates, left_on, right_on))

\* lines 1514-1521: merge_meta raised, or left_on is not in col_updates
HMetaMerged(data_left, data_right, mm, left_on, right_on, merge_existing) ==
    IF mm.raised # "none" THEN HFailed(mm.raised)
    ELSE IF left_on = right_on /\ left_on \notin Range(mm.col_updates)
    THEN HFailed("ValueError")
    ELSE HUpdated(data_left, data_right, mm.meta, mm.cols,
                  ColUpdates(mm.col_updates, left_on, right_on),
                  left_on, right_on, merge_existing)

\* lines 1485-1517
HKeyed(dataset_left, dataset_right, keys, overwrite_text, from_set, merge_existing) ==
    IF keys.raised # "none" THEN HFailed(keys.raised)
    ELSE IF \/ ~HasColumn(dataset_right.data, keys.right_on)
            \/ ~HasColumn(dataset_left.data, keys.left_on)
    THEN HFailed("KeyError")
    ELSE HMetaMerged(dataset_left.data,
                     Slice(dataset_right.data, keys.right_on,
                           dataset_left.data, keys.left_on),
                     merge_meta(dataset_left.meta, dataset_right.meta,
                                from_set, overwrite_text),
                     keys.left_on, keys.right_on, merge_existing)

\* hmerge(dataset_left, dataset_right, on, left_on, right_on,
\*        overwrite_text, from_set, merge_existing): [raised, meta, data]
hmerge(dataset_left, dataset_right, on, left_on, right_on, overwrite_text, from_set, merge_existing) ==
    HKeyed(dataset_left, dataset_right, KeyArgs(on, left_on, right_on),
           overwrite_text, from_set, merge_existing)

----------------------------------------------------------------------------
(* vmerge                                                                  *)
(*                                                                         *)
(* The arguments are the record a of on, left_on, right_on, row_id_name,   *)
(* left_id, right_id, overwrite_text and from_set; an id is a cell or      *)
(* NoId; a document carries meta['lib']['default text'] as text_key.  The  *)
(* frames are held without their index, so reset_index changes nothing     *)

NoId == [k |-> "None", v |-> 0, s |-> <<>>]

VResult(raised, meta_, data_) == [raised |-> raised, meta |-> meta_, data |-> data_]
VFailed(error) == VResult(error, <<>>, NoData)

\* lines 1683-1698: blind_append and the keys, or what the arguments raise
VKeys(on, left_on, right_on) ==
    IF on = "None" /\ left_on = "None" /\ right_on = "None"
    THEN [raised |-> "none", blind_append |-> TRUE,
          left_on |-> left_on, right_on |-> right_on]
    ELSE IF on = "None"
    THEN [raised |-> IF left_on = "None" \/ right_on = "None"
                     THEN "ValueError" ELSE "none",
          blind_append |-> FALSE, left_on |-> left_on, right_on |-> right_on]
    ELSE [raised |-> IF left_on # "None" \/ right_on # "None"
                     THEN "ValueError" ELSE "none",
          blind_append |-> FALSE, left_on |-> on, right_on |-> on]

\* lines 1703-1721: both keys are looked up in the data and the meta of
\* the left
KeysMissing(dataset_left, dataset_right, keys) ==
    /\ ~keys.blind_append
    /\ \/ ~HasColumn(dataset_left.data, keys.left_on)
       \/ ~Has(dataset_left.meta.columns, keys.left_on)
       \/ ~HasColumn(dataset_left.data, keys.right_on)
       \/ ~Has(dataset_left.meta.columns, keys.right_on)

\* lines 1735-1747: the type of a new row id column
id_type(left_id, right_id) ==
    IF left_id.k = "int" /\ right_id.k = "int" THEN "int"
    ELSE IF left_id.k \in {"int", "float"} /\ right_id.k \in {"int", "float"}
    THEN "float"
    ELSE "str"

\* lines 1742-1747: float(id), str(id); str(None) is 'None'
IdAs(id, type) ==
    IF type = "int" THEN id
    ELSE IF type = "float" THEN FloatCell(id.v)
    ELSE IF id = NoId THEN StrCell(<<"N", "o", "n", "e">>)
    ELSE StrCell(CellToStr(id))

\* lines 1756-1767: the column definition made for the row id and its item
\* in the data file set
WithRowId(meta_left, meta_right, row_id_name, type) ==
    [meta_left EXCEPT
        !.columns = Put(@, [name |-> row_id_name, type |-> type,
                            text |-> [tk \in {meta_left.text_key, meta_right.text_key}
                                        |-> "vmerge row id"]]),
        !.sets = Put(@, [Get(@, "data file") EXCEPT !.items =
                            AppendItems(@, <<Source("columns", row_id_name)>>)])]

\* df[name] = value
SetColumn(df, name, value) ==
    IF HasColumn(df, name)
    THEN [df EXCEPT !.rows =
            [i \in DOMAIN @ |->
                [j \in DOMAIN @[i] |->
                    IF df.columns[j] = name THEN value ELSE @[i][j]]]]
    ELSE [columns |-> Append(df.columns, name),
          rows |-> [i \in DOMAIN df.rows |-> Append(df.rows[i], value)]]

\* lines 1791-1793: the rows of the right kept, from
\* data_right[left_on].isin(data_left[right_on])
VSlice(data_right, data_left, left_on, right_on) ==
    [data_right EXCEPT !.rows =
        SelectSeq(@, LAMBDA row :
            ~\E i \in DOMAIN data_left.rows :
                KeyEq(row[ColumnAt(data_right, left_on)],
                      data_left.rows[i][ColumnAt(data_left, right_on)]))]

\* lines 1796-1798: col is a delimited set of the left and not of the right
ToConvert(meta_left, meta_right, col) ==
    /\ Has(meta_left.columns, col)
    /\ Get(meta_left.columns, col).type = "delimited set"
    /\ Get(meta_right.columns, col).type # "delimited set"

\* lines 1796-1800 raise on a column the right meta has not, and np.isnan
\* on a string
ConvertError(data_right, meta_left, meta_right) ==
    IF \E j \in DOMAIN data_right.columns :
          /\ Has(meta_left.columns, data_right.columns[j])
          /\ Get(meta_left.columns, data_right.columns[j]).type = "delimited set"
          /\ ~Has(meta_right.columns, data_right.columns[j])
    THEN "KeyError"
    ELSE IF \E j \in DOMAIN data_right.columns :
               /\ ToConvert(meta_left, meta_right, data_right.columns[j])
               /\ \E i \in DOMAIN data_right.rows : data_right.rows[i][j].k = "str"
    THEN "TypeError"
    ELSE "none"

\* lines 1799-1800: str(int(x)) + ';' if not np.isnan(x) else np.NaN
Converted(data_right, meta_left, meta_right) ==
    [data_right EXCEPT !.rows =
        [i \in DOMAIN @ |->
            [j \in DOMAIN @[i] |->
                IF /\ ToConvert(meta_left, meta_right, data_right.columns[j])
                   /\ IsNum(@[i][j])
                THEN StrCell(IntToStr(@[i][j].v) \o <<";">>)
                ELSE @[i][j]]]]

\* lines 1808-1813
col_slicer(data_left, meta_right, from_set) ==
    data_left.columns
    \o SelectSeq(get_columns_from_set(meta_right, from_set),
                 LAMBDA col : col \notin Range(data_left.columns))

\* the cell of a row of df under col, NaN where df has no such column
CellUnder(df, i, col) ==
    IF HasColumn(df, col) THEN df.rows[i][ColumnAt(df, col)] ELSE NaN

\* a column of numbers that holds a float or a NaN is a float column
AsColumns(rows) ==
    [i \in DOMAIN rows |->
        [j \in DOMAIN rows[i] |->
            IF /\ rows[i][j].k = "int"
               /\ \A r \in DOMAIN rows : rows[r][j].k # "str"
               /\ \E r \in DOMAIN rows : rows[r][j].k \in {"nan", "float"}
            THEN FloatCell(rows[i][j].v)
            ELSE rows[i][j]]]

\* lines 1802-1815: pd.concat([data_left, data_right], sort=True)[cols]
Concat(data_left, data_right, cols) ==
    [columns |-> cols,
     rows |-> AsColumns(
                [i \in DOMAIN data_left.rows |->
                    [j \in DOMAIN cols |-> CellUnder(data_left, i, cols[j])]]
                \o [i \in DOMAIN data_right.rows |->
                    [j \in DOMAIN cols |-> CellUnder(data_right, i, cols[j])]])]

\* lines 1802-1822
VSelected(data_left, data_right, meta_left, cols) ==
    IF \E c \in Range(cols) : ~HasColumn(data_left, c) /\ ~HasColumn(data_right, c)
    THEN VFailed("KeyError")
    ELSE VResult("none", meta_left, Concat(data_left, data_right, cols))

\* lines 1795-1822
VConverted(data_left, data_right, meta_left, meta_right, from_set) ==
    IF ConvertError(data_right, meta_left, meta_right) # "none"
    THEN VFailed(ConvertError(data_right, meta_left, meta_right))
    ELSE VSelected(data_left, Converted(data_right, meta_left, meta_right),
                   meta_left, col_slicer(data_left, meta_right, from_set))

\* lines 1782-1822, mm being the outcome of merge_meta
VSliced(data_left, data_right, meta_right, mm, keys, from_set) ==
    IF mm.raised # "none" THEN VFailed(mm.raised)
    ELSE IF keys.blind_append
    THEN VConverted(data_left, data_right, mm.meta, meta_right, from_set)
    ELSE IF ~HasColumn(data_right, keys.left_on) THEN VFailed("KeyError")
    ELSE VConverted(data_left,
                    VSlice(data_right, data_left, keys.left_on, keys.right_on),
                    mm.meta, meta_right, from_set)

\* lines 1779-1789: merge_meta on the copies
VMerged(meta_left, data_left, meta_right, data_right, keys, a) ==
    VSliced(data_left, data_right, meta_right,
            merge_meta(meta_left, meta_right, a.from_set, a.overwrite_text),
            keys, IF a.from_set = "None" THEN "data file" ELSE a.from_set)

\* lines 1769-1777: the ids written; DataFrame.ix is no attribute of a
\* DataFrame of pandas >= 1.0
VTagged(meta_left, data_left, meta_right, data_right, keys, a, left_id, right_id) ==
    IF left_id # NoId /\ HasColumn(data_left, a.row_id_name)
    THEN VFailed("AttributeError")
    ELSE VMerged(meta_left,
                 IF left_id # NoId THEN SetColumn(data_left, a.row_id_name, left_id)
                 ELSE data_left,
                 meta_right,
                 IF right_id # NoId THEN SetColumn(data_right, a.row_id_name, right_id)
                 ELSE data_right,
                 keys, a)

\* lines 1723-1777
VIdentified(dataset_left, dataset_right, keys, a) ==
    IF a.row_id_name = "None"
    THEN VMerged(dataset_left.meta, dataset_left.data,
                 dataset_right.meta, dataset_right.data, keys, a)
    ELSE IF a.left_id = NoId /\ a.right_id = NoId THEN VFailed("TypeError")
    ELSE IF Has(dataset_left.meta.columns, a.row_id_name)
    THEN VTagged(dataset_left.meta, dataset_left.data,
                 dataset_right.meta, dataset_right.data, keys, a,
                 a.left_id, a.right_id)
    ELSE VTagged(WithRowId(dataset_left.meta, dataset_right.meta, a.row_id_name,
                           id_type(a.left_id, a.right_id)),
                 dataset_left.data, dataset_right.meta, dataset_right.data, keys, a,
                 IdAs(a.left_id, id_type(a.left_id, a.right_id)),
                 IdAs(a.right_id, id_type(a.left_id, a.right_id)))

\* lines 1683-1721
VKeyed(dataset_left, dataset_right, keys, a) ==
    IF keys.raised # "none" THEN VFailed(keys.raised)
    ELSE IF KeysMissing(dataset_left, dataset_right, keys) THEN VFailed("KeyError")
    ELSE VIdentified(dataset_left, dataset_right, keys, a)

\* vmerge(dataset_left, dataset_right, on=, left_on=, right_on=,
\*        row_id_name=, left_id=, right_id=, overwrite_text=, from_set=)
vmerge(dataset_left, dataset_right, a) ==
    VKeyed(dataset_left, dataset_right, VKeys(a.on, a.left_on, a.right_on), a)

RECURSIVE VFold(_, _, _, _)
\* lines 1668-1679: the loop over datasets[1:], got the outcome so far and
\* ids the row_ids of the datasets to come (none when row_ids is not given)
VFold_Once(got, rest, ids, a) == got

VFold(got, rest, ids, a) ==
    IF rest = <<>> \/ got.raised # "none" THEN got
    ELSE VFold(vmerge([meta |-> got.meta, data |-> got.data], Head(rest),
                      IF ids = <<>> THEN a ELSE [a EXCEPT !.right_id = Head(ids)]),
               Tail(rest), IF ids = <<>> THEN ids ELSE Tail(ids), a)

\* lines 1649-1681: vmerge(datasets=[...], row_ids=[...]); with one dataset
\* the loop never binds meta_vm and the return raises
vmerge_datasets(datasets, row_ids, a) ==
    IF datasets = <<>> THEN VFailed("ValueError")
    ELSE IF Len(datasets) = 1 THEN VFailed("UnboundLocalError")
    ELSE VFold(vmerge(datasets[1], datasets[2],
                      IF row_ids = <<>> THEN a
                      ELSE [a EXCEPT !.left_id = row_ids[1], !.right_id = row_ids[2]]),
               Tail(Tail(datasets)),
               IF row_ids = <<>> THEN row_ids ELSE Tail(Tail(row_ids)),
               IF row_ids = <<>> THEN a ELSE [a EXCEPT !.left_id = row_ids[1]])

----------------------------------------------------------------------------
(* The objects hmerge and vmerge work on: the caller's documents and       *)
(* tables, and the copies the calls make of them                           *)

\* the caller's objects
CallerRefs == {"left.meta", "left.data", "right.meta", "right.data"}

\* the names of a call and the objects of the caller they come from
Names == {"meta_left", "data_left", "meta_right", "data_right"}

Origin(name) ==
    IF name = "meta_left" THEN "left.meta"
    ELSE IF name = "data_left" THEN "left.data"
    ELSE IF name = "meta_right" THEN "right.meta"
    ELSE "right.data"

\* copy.deepcopy(obj), lines 1498 and 1503: a new object of the same value
deepcopy_Same(ref) == ref

deepcopy(ref) == "copy of " \o ref

\* DataFrame.copy(), lines 1499, 1504, 1701, 1712
frame_copy(ref) == "copy of " \o ref

\* cpickle_copy(obj), lines 1700 and 1711: a new object of the same value
cpickle_copy(ref) == "copy of " \o ref

\* what the names of a call are bound to after its copies
Bound(op) ==
    [name \in Names |->
        IF name \in {"data_left", "data_right"} THEN frame_copy(Origin(name))
        ELSE IF op = "hmerge" THEN deepcopy(Origin(name))
        ELSE cpickle_copy(Origin(name))]

\* the right document as merge_meta leaves it (lines 1284-1289): the
\* columns new to the left are marked as merged, and are the objects the
\* left document holds from then on
RightAfter(meta_left, meta_right, mm) ==
    [meta_right EXCEPT !.columns =
        [k \in DOMAIN @ |->
            IF @[k].name \in Range(mm.cols) /\ ~Has(meta_left.columns, @[k].name)
            THEN AddedColumn(@[k]) ELSE @[k]]]

\* lines 1554-1555 of hmerge: data_left[col] = updata_left[col].astype(...)
HCastInPlace(data_left, updated) ==
    IF AsTypeFails(data_left, updated) THEN data_left
    ELSE AsType(data_left, updated)

\* lines 1531-1555 of hmerge: the left table as the updates leave it
HUpdatedInPlace(data_left, data_right, meta_left, col_updates, left_on, right_on, merge_existing) ==
    IF col_updates = <<>> THEN data_left
    ELSE IF UpdateError(data_left, data_right, col_updates, left_on, right_on) # "none"
    THEN data_left
    ELSE HCastInPlace(data_left,
                      Updated(data_left, data_right, meta_left, col_updates,
                              left_on, right_on, merge_existing))

\* what the objects bound to the names of hmerge hold when it ends, mm
\* being the outcome of merge_meta and data_right the right rows kept
HWritten(L, R, data_right, mm, left_on, right_on, merge_existing) ==
    [meta_left |-> mm.meta,
     meta_right |-> RightAfter(L.meta, R.meta, mm),
     data_left |->
        IF mm.raised # "none" \/ (left_on = right_on /\ left_on \notin Range(mm.col_updates))
        THEN L.data
        ELSE HUpdatedInPlace(L.data, data_right, mm.meta,
                             ColUpdates(mm.col_updates, left_on, right_on),
                             left_on, right_on, merge_existing),
     data_right |-> R.data]

\* nothing is written
Unwritten(L, R) ==
    [meta_left |-> L.meta, meta_right |-> R.meta,
     data_left |-> L.data, data_right |-> R.data]

\* lines 1485-1577
HWrites(L, R, keys, a) ==
    IF \/ ~HasColumn(R.data, keys.right_on)
       \/ ~HasColumn(L.data, keys.left_on)
    THEN Unwritten(L, R)
    ELSE HWritten(L, R,
                  Slice(R.data, keys.right_on, L.data, keys.left_on),
                  merge_meta(L.meta, R.meta, a.from_set, a.overwrite_text),
                  keys.left_on, keys.right_on, a.merge_existing)

\* lines 1728-1767 of vmerge: the left document with the row id column
VMetaTagged(L, R, a) ==
    IF a.row_id_name = "None" \/ Has(L.meta.columns, a.row_id_name) THEN L.meta
    ELSE WithRowId(L.meta, R.meta, a.row_id_name, id_type(a.left_id, a.right_id))

\* lines 1734-1748: the id as the row id column takes it
VIdOf(L, a, id) ==
    IF Has(L.meta.columns, a.row_id_name) THEN id
    ELSE IdAs(id, id_type(a.left_id, a.right_id))

\* lines 1769-1777: a table with the id written to the row id column
VDataTagged(df, a, id) ==
    IF a.row_id_name = "None" \/ id = NoId THEN df
    ELSE SetColumn(df, a.row_id_name, id)

\* lines 1782-1800 of vmerge, mm the outcome of merge_meta: the right
\* table is converted in place where line 1793 has not made a new one
VWritten(L, R, a, keys, meta_left, mm) ==
    [meta_left |-> mm.meta,
     meta_right |-> RightAfter(meta_left, R.meta, mm),
     data_left |-> VDataTagged(L.data, a, VIdOf(L, a, a.left_id)),
     data_right |->
        IF /\ keys.blind_append
           /\ mm.raised = "none"
           /\ ConvertError(VDataTagged(R.data, a, VIdOf(L, a, a.right_id)),
                           mm.meta, R.meta) = "none"
        THEN Converted(VDataTagged(R.data, a, VIdOf(L, a, a.right_id)),
                       mm.meta, R.meta)
        ELSE VDataTagged(R.data, a, VIdOf(L, a, a.right_id))]

\* lines 1700-1800
VWrites(L, R, keys, a) ==
    IF KeysMissing(L, R, keys) THEN Unwritten(L, R)
    ELSE IF a.row_id_name # "None" /\ a.left_id = NoId /\ a.right_id = NoId
    THEN Unwritten(L, R)
    ELSE IF /\ a.row_id_name # "None"
            /\ VIdOf(L, a, a.left_id) # NoId
            /\ HasColumn(L.data, a.row_id_name)
    THEN [Unwritten(L, R) EXCEPT !.meta_left = VMetaTagged(L, R, a)]
    ELSE VWritten(L, R, a, keys, VMetaTagged(L, R, a),
                  merge_meta(VMetaTagged(L, R, a), R.meta,
                             a.from_set, a.overwrite_text))

\* the keys of a call, or the error of its arguments
CallKeys(a) ==
    IF a.op = "hmerge" THEN KeyArgs(a.on, a.left_on, a.right_on)
    ELSE VKeys(a.on, a.left_on, a.right_on)

\* what the call returns or raises on the datasets L and R
CallResult(L, R, a) ==
    IF a.op = "hmerge"
    THEN hmerge(L, R, a.on, a.left_on, a.right_on, a.overwrite_text,
                a.from_set, a.merge_existing)
    ELSE vmerge(L, R, a)

\* what the objects bound to the names of the call hold when it ends
CallWrites(L, R, a) ==
    IF a.op = "hmerge" THEN HWrites(L, R, CallKeys(a), a)
    ELSE VWrites(L, R, CallKeys(a), a)

----------------------------------------------------------------------------
(* crosstab: the table df as lines 582-640 leave it, and the frequency     *)
(* column of xtotal.  A table is [index, columns, rows]                    *)

\* the outcome of crosstab
CrossResult(raised, table) == [raised |-> raised, table |-> table]

NoTable == [index |-> <<>>, columns |-> <<>>, rows |-> <<>>]

\* the row of the table at a label of its index, missing cells for a label
\* it has not
RowAt(table, label) ==
    IF label \in Range(table.index)
    THEN table.rows[CHOOSE i \in DOMAIN table.index : table.index[i] = label]
    ELSE [j \in DOMAIN table.columns |-> NaN]

\* f.loc[labels] raises KeyError on a label that f has not
LocError(f, labels) == \E k \in DOMAIN labels : labels[k] \notin Range(f.index)

\* f.loc[labels]
Loc(f, labels) ==
    [index |-> labels, columns |-> f.columns,
     rows |-> [k \in DOMAIN labels |-> RowAt(f, labels[k])]]

\* the index of pd.concat([f, df], axis=1): the labels of f, then those
\* only df has
ConcatIndex(f, df) ==
    f.index \o SelectSeq(df.index, LAMBDA label : label \notin Range(f.index))

\* pd.concat([f, df], axis=1)
ConcatColumns(f, df) ==
    [index |-> ConcatIndex(f, df),
     columns |-> f.columns \o df.columns,
     rows |-> [k \in DOMAIN ConcatIndex(f, df) |->
                 RowAt(f, ConcatIndex(f, df)[k]) \o RowAt(df, ConcatIndex(f, df)[k])]]

\* df.T
Transposed(df) ==
    [index |-> df.columns, columns |-> df.index,
     rows |-> [j \in DOMAIN df.columns |->
                 [i \in DOMAIN df.index |-> df.rows[i][j]]]]

\* lines 642-650, freq being what frequency() raises or returns: when it
\* raises, f is not bound at line 650; when f.loc raises, f is still the
\* whole frequency
XTotal(df, freq) ==
    IF freq.raised # "none" THEN CrossResult("UnboundLocalError", NoTable)
    ELSE IF LocError(freq.table, df.index)
    THEN CrossResult("none", ConcatColumns(freq.table, df))
    ELSE CrossResult("none", ConcatColumns(Loc(freq.table, df.index), df))

\* lines 652-655
CrossReturn(r, array) ==
    IF r.raised = "none" /\ array THEN CrossResult("none", Transposed(r.table))
    ELSE r

\* lines 586-655 of crosstab, df the table of lines 582-640
crosstab(df, freq, get, xtotal, array) ==
    IF get \notin {"count", "normalize"} THEN CrossResult("ValueError", NoTable)
    ELSE IF xtotal THEN CrossReturn(XTotal(df, freq), array)
    ELSE CrossReturn(CrossResult("none", df), array)

----------------------------------------------------------------------------
(* The codec calls: condense a dichotomous frame, then expand the result   *)
(* or split and recondense it                                              *)

CodePool == {1, 3, 10}
\* the cells of a frame by the dtype of its columns: int64 columns of 0/1,
\* float64 columns where the unselected cells are missing, and int64 columns
\* where they hold a value that is neither yes nor no
FrameKinds == {"int64", "float64", "other"}
CellPool(kind) ==
    CASE kind = "int64" -> {IntCell(0), IntCell(1)}
      [] kind = "float64" -> {NaN, FloatCell(1)}
      [] OTHER -> {IntCell(9), IntCell(1)}

\* the sequences of distinct codes of length 1..n
RECURSIVE CodeSeqs(_)
CodeSeqs(n) ==
    IF n = 0 THEN {<<>>}
    ELSE LET prev == CodeSeqs(n - 1)
         IN prev \cup {Append(q, c) : q \in {p \in prev : Len(p) = n - 1},
                                      c \in CodePool}

ColumnLayouts == {q \in CodeSeqs(MaxCols) :
                    /\ Len(q) >= 1
                    /\ \A a, b \in DOMAIN q : a # b => q[a] # q[b]}

\* the column of code c is named q_<c>
ColumnName(c) == <<"q", "_">> \o IntToStr(c)

Frames ==
    UNION {{[columns |-> [j \in DOMAIN q |-> ColumnName(q[j])], rows |-> r] :
              r \in [1..NRowsM -> [1..Len(q) -> CellPool(kind)]]} :
           q \in ColumnLayouts, kind \in FrameKinds}

NoArgs == [op |-> "none"]
NoFrame == [raised |-> "none", columns |-> <<>>, rows |-> <<>>]

InitCodec ==
    /\ pc = "start"
    /\ stack = <<>>
    /\ M \in Frames
    /\ cargs = NoArgs
    /\ S = <<>>
    /\ E = NoFrame
    /\ N = <<>>
    /\ data = <<>>
    /\ meta = <<>>
    /\ rargs = NoArgs
    /\ res = NoArgs
    /\ left = NoArgs
    /\ right = NoArgs
    /\ margs = NoArgs
    /\ out = NoArgs

\* S = condense_dichotomous_set(M, values_from_labels, sniff_single)
Condense ==
    /\ pc = "start"
    /\ \E vfl \in BOOLEAN, sniff \in BOOLEAN :
        /\ S' = condense_dichotomous_set(M, vfl, sniff, 1, 0)
        /\ cargs' = [op |-> "condense", values_from_labels |-> vfl,
                     sniff_single |-> sniff]
    /\ pc' = "condensed"
    /\ UNCHANGED <<M, E, N, data, meta, rargs, res, left, right, margs, out, stack>>

\* the codes condense gave the columns of M, as strings
CodesOf(df, vfl) == [j \in DOMAIN df.columns |-> ColumnCode(df.columns, j, vfl)]

\* the universes a caller passes: the codes as strings, as ints, all but
\* the last code, or none at all
Universes(df, vfl) ==
    LET codes == CodesOf(df, vfl)
    IN {[none |-> FALSE, labels |-> [j \in DOMAIN codes |-> StrCell(codes[j])]],
        [none |-> FALSE,
         labels |-> [j \in DOMAIN codes |-> IntCell(IntOfFloatStr(codes[j]))]],
        [none |-> FALSE,
         labels |-> [j \in 1..(Len(codes) - 1) |-> StrCell(codes[j])]],
        [none |-> TRUE, labels |-> <<>>]}

DichotomDefault == <<1, 2>>

\* E = dichotomous_from_delimited(S, value_map, dichotom=...)
Expand ==
    /\ pc = "condensed"
    /\ \E u \in Universes(M, cargs.values_from_labels),
          d \in {DichotomDefault, <<1, 0>>} :
        /\ E' = dichotomous_from_delimited(S, u, ";", TRUE, d)
        /\ cargs' = [cargs EXCEPT !.op = "expand"] @@
                    [value_map |-> u, dichotom |-> d]
    /\ pc' = "expanded"
    /\ UNCHANGED <<M, S, N, data, meta, rargs, res, left, right, margs, out, stack>>

\* N = the series S split into its dummies and condensed again, as lines
\* 895-906 do with a series of strings
Recondense ==
    /\ pc = "condensed"
    /\ DType(S) = "object" \/ AllNull(S)
    /\ N' = IF AllNull(S) THEN S ELSE Renormalise(S)
    /\ cargs' = [cargs EXCEPT !.op = "recondense"]
    /\ pc' = "recondensed"
    /\ UNCHANGED <<M, S, E, data, meta, rargs, res, left, right, margs, out, stack>>

NextCodec == Condense \/ Expand \/ Recondense

SpecCodec == InitCodec /\ [][NextCodec]_vars

----------------------------------------------------------------------------
(* The recode calls: a dataset with the delimited-set column src and,      *)
(* possibly, the target column tgt; one call of recode on it               *)

Str1 == StrCell(<<"1", ";">>)
Str13 == StrCell(<<"1", ";", "3", ";">>)
Str3 == StrCell(<<"3", ";">>)
Str20 == StrCell(<<"2", "0", ";">>)

SrcPool == {NaN, Str1, Str13}

TargetTypes == {"delimited set", "single", "int", "float", "string"}

\* the columns a target of the given type holds before the call: strings or
\* floats for a delimited set, floats for the numeric types
TargetColumns(type) ==
    CASE type = "delimited set" ->
            [1..NRows -> {NaN, Str3, Str20}] \cup [1..NRows -> {NaN, FloatCell(20)}]
      [] type \in {"single", "int", "float"} -> [1..NRows -> {NaN, FloatCell(7)}]
      [] OTHER -> {}

TargetValues == <<10, 20>>

Datasets(type) ==
    {[c \in {"src"} |-> src] : src \in [1..NRows -> SrcPool]}
    \cup {[c \in {"src", "tgt"} |-> IF c = "src" THEN src ELSE tgt] :
            src \in [1..NRows -> SrcPool], tgt \in TargetColumns(type)}

SrcMeta == [type |-> "delimited set", values |-> <<1, 3, 5>>]

Metas ==
    {[c \in {"src"} |-> SrcMeta]}
    \cup {[c \in {"src", "tgt"} |->
             IF c = "src" THEN SrcMeta ELSE [type |-> t, values |-> TargetValues]] :
          t \in TargetTypes}

KeyPool == {10, 20}
LogicPool == {{1}, {3}}

\* the mappers {key: [codes]}: every order of every set of keys
Mappers ==
    LET entry(k, c) == [key |-> k, val |-> [kind |-> "list", col |-> "None",
                                            codes |-> c]]
    IN {<<>>}
       \cup {<<entry(k, c)>> : k \in KeyPool, c \in LogicPool}
       \cup {<<entry(ks[1], c1), entry(ks[2], c2)>> :
               ks \in {q \in KeyPool \X KeyPool : q[1] # q[2]},
               c1 \in LogicPool, c2 \in LogicPool}

InitRecode ==
    /\ pc = "start"
    /\ stack = <<>>
    /\ meta \in Metas
    /\ data \in Datasets(IF "tgt" \in DOMAIN meta THEN meta["tgt"].type ELSE "none")
    /\ rargs = NoArgs
    /\ res = NoArgs
    /\ M = NoFrame
    /\ cargs = NoArgs
    /\ S = <<>>
    /\ E = NoFrame
    /\ N = <<>>
    /\ left = NoArgs
    /\ right = NoArgs
    /\ margs = NoArgs
    /\ out = NoArgs

\* res = recode(meta, data, 'tgt', mapper, default='src', append=...,
\*              initialize=..., fillna=...)
Recode ==
    /\ pc = "start"
    /\ \E mapper \in Mappers, append \in BOOLEAN,
          initialize \in {"None", "NaN", "src"},
          fillna \in {NoFill, [none |-> FALSE, value |-> 9]} :
        \E r \in {recode(meta, data, "tgt", mapper, "src", append, NoLogic,
                        initialize, fillna)} :
           /\ res' = [r EXCEPT !.data = "after"]
           /\ data' = r.data
           /\ rargs' = [op |-> "recode", mapper |-> mapper, append |-> append,
                        initialize |-> initialize, fillna |-> fillna]
    /\ pc' = "recoded"
    /\ UNCHANGED <<meta, M, cargs, S, E, N, left, right, margs, out, stack>>

NextRecode == Recode

SpecRecode == InitRecode /\ [][NextRecode]_vars

----------------------------------------------------------------------------
(* The keyed calls: index_mapper, and recode, with mapper values of every  *)
(* form, with and without default and intersect, on a dataset that holds   *)
(* the column src and no column gone                                       *)

\* the values of a mapper entry
MapperVals ==
    {[kind |-> "list", col |-> "None", codes |-> c] : c \in LogicPool}
    \cup {[kind |-> "dict", col |-> col, codes |-> c] :
            col \in {"src", "gone"}, c \in LogicPool}
    \cup {[kind |-> "tuple", col |-> "src", codes |-> c] : c \in LogicPool}

\* the values the two-entry mappers are built from
PairVals ==
    {[kind |-> "list", col |-> "None", codes |-> {1}],
     [kind |-> "dict", col |-> "src", codes |-> {3}],
     [kind |-> "tuple", col |-> "src", codes |-> {1}]}

KeyedMappers ==
    {<<>>}
    \cup {<<[key |-> k, val |-> v]>> : k \in KeyPool, v \in MapperVals}
    \cup {<<[key |-> ks[1], val |-> v1], [key |-> ks[2], val |-> v2]>> :
            ks \in {q \in KeyPool \X KeyPool : q[1] # q[2]},
            v1 \in PairVals, v2 \in PairVals}

Defaults == {"None", "src"}

Intersects ==
    {NoLogic,
     [none |-> FALSE, col |-> "src", codes |-> {3}],
     [none |-> FALSE, col |-> "src", codes |-> {1}]}

InitMapper ==
    /\ pc = "start"
    /\ stack = <<>>
    /\ meta \in Metas
    /\ data \in {[c \in {"src"} |-> src] : src \in [1..NRows -> SrcPool]}
    /\ rargs = NoArgs
    /\ res = NoArgs
    /\ M = NoFrame
    /\ cargs = NoArgs
    /\ S = <<>>
    /\ E = NoFrame
    /\ N = <<>>
    /\ left = NoArgs
    /\ right = NoArgs
    /\ margs = NoArgs
    /\ out = NoArgs

\* res = index_mapper(meta, data, mapper, default, intersect)
IndexMap ==
    /\ pc = "start"
    /\ \E mapper \in KeyedMappers, default \in Defaults, intersect \in Intersects :
        /\ res' = index_mapper(meta, data, mapper, default, intersect)
        /\ rargs' = [op |-> "index_mapper", mapper |-> mapper,
                     default |-> default, intersect |-> intersect]
    /\ pc' = "mapped"
    /\ UNCHANGED <<data, meta, M, cargs, S, E, N, left, right, margs, out, stack>>

\* res = recode(meta, data, 'tgt', mapper, default, append, intersect)
RecodeKeyed ==
    /\ pc = "start"
    /\ \E mapper \in KeyedMappers, default \in Defaults, append \in BOOLEAN,
          intersect \in {NoLogic, [none |-> FALSE, col |-> "src", codes |-> {3}]} :
        \E r \in {recode(meta, data, "tgt", mapper, default, append, intersect,
                        "None", NoFill)} :
           /\ res' = [r EXCEPT !.data = "after"]
           /\ data' = r.data
           /\ rargs' = [op |-> "recode", mapper |-> mapper, default |-> default,
                        append |-> append, intersect |-> intersect,
                        initialize |-> "None", fillna |-> NoFill]
    /\ pc' = "recoded"
    /\ UNCHANGED <<meta, M, cargs, S, E, N, left, right, margs, out, stack>>

NextMapper == IndexMap \/ RecodeKeyed

SpecMapper == InitMapper /\ [][NextMapper]_vars

----------------------------------------------------------------------------
(* The value-list calls: merge_values_meta on two value lists              *)

Locales == {"en", "de"}

\* the texts of one side: the labels carry the side they come from
Texts(label) == {[tk \in {"en"} |-> label], [tk \in {"de"} |-> label]}

\* the value lists of one side: up to MaxVals values of ids 1..MaxVals + 1
RECURSIVE ValueLists(_, _)
ValueLists(n, label) ==
    IF n = 0 THEN {<<>>}
    ELSE ValueLists(n - 1, label)
         \cup {Append(q, [value |-> v, text |-> t]) :
                 q \in {p \in ValueLists(n - 1, label) : Len(p) = n - 1},
                 v \in 1..(MaxVals + 1), t \in Texts(label)}

\* a value list that holds every id once
DistinctIds(values) ==
    \A i, j \in DOMAIN values : values[i].value = values[j].value => i = j

\* the left list may hold an id twice, the right list holds every id once
InitValues ==
    /\ pc = "start"
    /\ stack = <<>>
    /\ left \in ValueLists(MaxVals, "L")
    /\ right \in {q \in ValueLists(MaxVals, "R") : DistinctIds(q)}
    /\ margs = NoArgs
    /\ out = NoArgs
    /\ M = NoFrame
    /\ cargs = NoArgs
    /\ S = <<>>
    /\ E = NoFrame
    /\ N = <<>>
    /\ data = <<>>
    /\ meta = <<>>
    /\ rargs = NoArgs
    /\ res = NoArgs

\* out = merge_values_meta(left, right, overwrite)
MergeValues ==
    /\ pc = "start"
    /\ \E overwrite \in BOOLEAN :
        /\ out' = merge_values_meta(left, right, overwrite)
        /\ margs' = [op |-> "merge_values_meta", overwrite |-> overwrite]
    /\ pc' = "merged"
    /\ UNCHANGED <<left, right, M, cargs, S, E, N, data, meta, rargs, res, stack>>

NextValues == MergeValues

SpecValues == InitValues /\ [][NextValues]_vars

----------------------------------------------------------------------------
(* The column calls: merge_column_metadata on two columns named age, of    *)
(* every pair of types, with and without values                            *)

LeftValues == <<[value |-> 1, text |-> [tk \in {"en"} |-> "L"]]>>
RightValues ==
    <<[value |-> 1, text |-> [tk \in {"de"} |-> "R"]],
      [value |-> 2, text |-> [tk \in {"en"} |-> "R"]]>>

\* the columns of one side: every type, a text, values or none
Columns(label, values) ==
    {[name |-> "age", type |-> t, text |-> x] :
        t \in all_types, x \in Texts(label)}
    \cup {[name |-> "age", type |-> t, text |-> x, values |-> values] :
            t \in all_types, x \in Texts(label)}

InitColumns ==
    /\ pc = "start"
    /\ stack = <<>>
    /\ left \in Columns("L", LeftValues)
    /\ right \in Columns("R", RightValues)
    /\ margs = NoArgs
    /\ out = NoArgs
    /\ M = NoFrame
    /\ cargs = NoArgs
    /\ S = <<>>
    /\ E = NoFrame
    /\ N = <<>>
    /\ data = <<>>
    /\ meta = <<>>
    /\ rargs = NoArgs
    /\ res = NoArgs

\* out = merge_column_metadata(left, right, overwrite)
MergeColumn ==
    /\ pc = "start"
    /\ \E overwrite \in BOOLEAN :
        /\ out' = merge_column_metadata(left, right, overwrite)
        /\ margs' = [op |-> "merge_column_metadata", overwrite |-> overwrite]
    /\ pc' = "merged"
    /\ UNCHANGED <<left, right, M, cargs, S, E, N, data, meta, rargs, res, stack>>

NextColumns == MergeColumn

SpecColumns == InitColumns /\ [][NextColumns]_vars

----------------------------------------------------------------------------
(* The document calls: merge_meta of a right document with the columns a,   *)
(* B, c and q, the mask m over q and the lib.values entry lv into a left   *)
(* document that holds some of them                                        *)

Txt(locale, label) == [tk \in {locale} |-> label]
Val(id, locale, label) == [value |-> id, text |-> Txt(locale, label)]

\* the columns of the right, in the order of its columns dict
RightColumnsDict ==
    <<[name |-> "a", type |-> "single", text |-> Txt("de", "R"),
       values |-> <<Val(1, "de", "R"), Val(2, "en", "R")>>,
       properties |-> [created |-> TRUE]],
      [name |-> "B", type |-> "int", text |-> Txt("en", "R")],
      [name |-> "c", type |-> "single", text |-> Txt("en", "R"),
       values_ref |-> "lv"],
      [name |-> "q", type |-> "single", text |-> Txt("en", "R"),
       values |-> <<Val(1, "en", "R")>>]>>

\* the items of the right's data file set
ItemOrders ==
    {<<Source("columns", "B"), Source("columns", "a")>>,
     <<Source("columns", "c"), Source("columns", "a"), Source("columns", "B")>>,
     <<Source("columns", "a"), Source("masks", "m"), Source("columns", "c")>>,
     <<Source("masks", "m"), Source("columns", "q"), Source("columns", "B")>>}

RightLibs ==
    {<<Val(1, "en", "R"), Val(3, "en", "R")>>,
     <<Val(2, "en", "R")>>,
     <<Val(1, "en", "L")>>}

MaskM(label, col, values) ==
    [name |-> "m", text |-> Txt("en", label),
     items |-> <<[source |-> Source("columns", col), text |-> Txt("en", label)]>>,
     values |-> values]

SetM(col) == [name |-> "m", items |-> <<Source("columns", col)>>]

RightMetas ==
    {[columns |-> RightColumnsDict,
      masks |-> <<MaskM("R", "q", mv)>>,
      sets |-> <<[name |-> "data file", items |-> items], SetM("q")>> \o waves,
      lib |-> <<[name |-> "lv", values |-> lv]>>
              \o (IF mv THEN <<[name |-> "m", values |-> <<Val(1, "en", "R")>>]>>
                  ELSE <<>>)] :
        items \in ItemOrders, mv \in BOOLEAN, lv \in RightLibs,
        waves \in {<<>>, <<[name |-> "wave", items |-> <<Source("columns", "c")>>]>>}}

\* the columns of the left and the items of its data file set
LeftColumnsDicts ==
    {<<>>,
     <<[name |-> "a", type |-> "single", text |-> Txt("en", "L"),
        values |-> <<Val(1, "en", "L")>>]>>,
     <<[name |-> "a", type |-> "int", text |-> Txt("en", "L")],
       [name |-> "B", type |-> "int", text |-> Txt("en", "L"),
        properties |-> [created |-> FALSE]]>>,
     <<[name |-> "B", type |-> "single", text |-> Txt("en", "L"),
        values |-> <<Val(1, "en", "L")>>]>>}

LeftLibs ==
    {<<>>,
     <<[name |-> "lv", values |-> <<Val(1, "en", "L")>>]>>,
     <<[name |-> "lv", values |-> <<Val(1, "en", "L"), Val(2, "en", "L")>>]>>}

LeftMasks == {<<>>, <<MaskM("L", "q", FALSE)>>, <<MaskM("L", "z", FALSE)>>}

LeftMetas ==
    {[columns |-> cols,
      masks |-> masks,
      sets |-> <<[name |-> "data file",
                  items |-> [k \in DOMAIN cols |-> Source("columns", cols[k].name)]]>>
               \o [k \in DOMAIN masks |->
                     SetM(masks[k].items[1].source.name)],
      lib |-> lib] :
        cols \in LeftColumnsDicts, masks \in LeftMasks, lib \in LeftLibs}

InitMeta ==
    /\ pc = "start"
    /\ stack = <<>>
    /\ left \in LeftMetas
    /\ right \in RightMetas
    /\ margs = NoArgs
    /\ out = NoArgs
    /\ M = NoFrame
    /\ cargs = NoArgs
    /\ S = <<>>
    /\ E = NoFrame
    /\ N = <<>>
    /\ data = <<>>
    /\ meta = <<>>
    /\ rargs = NoArgs
    /\ res = NoArgs

\* out = merge_meta(left, right, from_set, overwrite_text, get_cols=True,
\*                  get_updates=True), on a copy of left
MergeMeta ==
    /\ pc = "start"
    /\ \E from_set \in {"None", "wave"}, overwrite_text \in BOOLEAN :
        /\ out' = merge_meta(left, right, from_set, overwrite_text)
        /\ margs' = [op |-> "merge_meta", from_set |-> from_set,
                     overwrite_text |-> overwrite_text]
    /\ pc' = "merged"
    /\ UNCHANGED <<left, right, M, cargs, S, E, N, data, meta, rargs, res, stack>>

NextMeta == MergeMeta

SpecMeta == InitMeta /\ [][NextMeta]_vars

(* The repeated merge_meta calls: the right document is merged into the   *)
(* left, and then once more into what the first call returned; res is     *)
(* the outcome of the first call, out that of the second                  *)

\* out = merge_meta(res.meta, right, from_set, overwrite_text), the right
\* document being as it was or as the first call left it
MergeAgain ==
    /\ pc = "merged"
    /\ out.raised = "none"
    /\ \E again \in {right, RightAfter(left, right, out)} :
        out' = merge_meta(out.meta, again, margs.from_set, margs.overwrite_text)
    /\ res' = out
    /\ pc' = "merged again"
    /\ UNCHANGED <<left, right, margs, M, cargs, S, E, N, data, meta, rargs, stack>>

NextAgain == MergeMeta \/ MergeAgain

SpecAgain == InitMeta /\ [][NextAgain]_vars

----------------------------------------------------------------------------
(* The traversal calls: get_columns_from_set or get_columns_from_mask of a *)
(* document with the sets 'data file' and g and the masks m and k, run one *)
(* item or one return at a time                                            *)

RecursionLimit == 4

MaskItems(sources) ==
    [k \in DOMAIN sources |-> [source |-> sources[k], text |-> Txt("en", "L")]]

TraversalMetas ==
    {[columns |-> <<>>,
      masks |-> <<[name |-> "m", text |-> Txt("en", "L"), items |-> MaskItems(m)],
                  [name |-> "k", text |-> Txt("en", "L"), items |-> MaskItems(k)]>>,
      sets |-> <<[name |-> "data file", items |-> d], [name |-> "g", items |-> g]>>,
      lib |-> <<>>] :
        d \in {<<Source("columns", "a"), Source("masks", "m"), Source("columns", "a")>>,
               <<Source("columns", "b"), Source("sets", "g")>>,
               <<Source("masks", "m"), Source("masks", "k")>>},
        g \in {<<Source("columns", "c")>>,
               <<Source("masks", "k"), Source("columns", "a")>>,
               <<Source("sets", "g")>>,
               <<Source("sets", "data file")>>},
        m \in {<<Source("columns", "q")>>,
               <<Source("columns", "q"), Source("masks", "k")>>,
               <<Source("sets", "g")>>},
        k \in {<<Source("columns", "r"), Source("columns", "q")>>,
               <<Source("masks", "m")>>,
               <<Source("masks", "z")>>}}

InitTraverse ==
    /\ pc = "start"
    /\ stack = <<>>
    /\ left \in TraversalMetas
    /\ right = NoArgs
    /\ margs = NoArgs
    /\ out = NoArgs
    /\ M = NoFrame
    /\ cargs = NoArgs
    /\ S = <<>>
    /\ E = NoFrame
    /\ N = <<>>
    /\ data = <<>>
    /\ meta = <<>>
    /\ rargs = NoArgs
    /\ res = NoArgs

\* the innermost call and the items it loops over
Top == stack[Len(stack)]
TopSources == ItemSources(left, Top.kind, Top.name)

\* get_columns_from_set(left, name) or get_columns_from_mask(left, name)
\* is called
TraverseCall ==
    /\ pc = "start"
    /\ \E kind \in {"sets", "masks"}, name \in {"data file", "g", "m", "k"} :
        /\ Known(left, kind, name)
        /\ margs' = [op |-> "get_columns_from", kind |-> kind, name |-> name]
        /\ stack' = <<Frame(kind, name)>>
    /\ pc' = "walking"
    /\ UNCHANGED <<left, right, out, M, cargs, S, E, N, data, meta, rargs, res>>

\* lines 1315-1316, 1335-1336: cols.append(name)
TakeColumn ==
    /\ pc = "walking"
    /\ Top.pos <= Len(TopSources)
    /\ TopSources[Top.pos].kind = "columns"
    /\ stack' = [stack EXCEPT ![Len(stack)] =
                    [@ EXCEPT !.cols = Append(@, TopSources[Top.pos].name),
                              !.pos = @ + 1]]
    /\ UNCHANGED <<pc, left, right, margs, out, M, cargs, S, E, N, data, meta, rargs, res>>

\* lines 1317-1320, 1337-1340: the recursive call; it raises KeyError on a
\* name the document has not, and the interpreter raises RecursionError
\* when the calls in progress reach its limit
Descend ==
    /\ pc = "walking"
    /\ Top.pos <= Len(TopSources)
    /\ TopSources[Top.pos].kind # "columns"
    /\ IF ~Known(left, TopSources[Top.pos].kind, TopSources[Top.pos].name)
       THEN /\ pc' = "raised"
            /\ out' = [raised |-> "KeyError", cols |-> <<>>]
            /\ stack' = <<>>
       ELSE IF Len(stack) = RecursionLimit
       THEN /\ pc' = "raised"
            /\ out' = [raised |-> "RecursionError", cols |-> <<>>]
            /\ stack' = <<>>
       ELSE /\ stack' = Append(stack, Frame(TopSources[Top.pos].kind,
                                            TopSources[Top.pos].name))
            /\ UNCHANGED <<pc, out>>
    /\ UNCHANGED <<left, right, margs, M, cargs, S, E, N, data, meta, rargs, res>>

\* lines 1326, 1346-1348: return cols
Return ==
    /\ pc = "walking"
    /\ Top.pos > Len(TopSources)
    /\ IF Len(stack) = 1
       THEN /\ pc' = "returned"
            /\ out' = [raised |-> "none", cols |-> FrameResult(Top.kind, Top.cols)]
            /\ stack' = <<>>
       ELSE /\ stack' = Returned(stack, FrameResult(Top.kind, Top.cols))
            /\ UNCHANGED <<pc, out>>
    /\ UNCHANGED <<left, right, margs, M, cargs, S, E, N, data, meta, rargs, res>>

NextTraverse == TraverseCall \/ TakeColumn \/ Descend \/ Return

\* the interpreter runs the call to its end
SpecTraverse == InitTraverse /\ [][NextTraverse]_vars /\ WF_vars(NextTraverse)

----------------------------------------------------------------------------
(* The hmerge calls: a left dataset keyed by id, with the column x and,    *)
(* declared in its meta or not, a column rid; a right dataset keyed by id  *)
(* or rid that brings x and the new column y                               *)

HColumn(name) ==
    [name |-> name,
     type |-> IF name \in {"id", "rid"} THEN "int"
              ELSE IF name = "s" THEN "delimited set"
              ELSE "float",
     text |-> Txt("en", name)]

\* a document of the named columns whose data file set lists items
HMeta(names, items) ==
    [columns |-> [k \in DOMAIN names |-> HColumn(names[k])],
     masks |-> <<>>,
     sets |-> <<[name |-> "data file",
                 items |-> [k \in DOMAIN items |-> Source("columns", items[k])]]>>,
     lib |-> <<>>]

\* the left: NRows rows with the key 1 or 2, x = 5.0 and rid = 9
LeftLayouts ==
    {[declared |-> <<"id", "x">>, columns |-> <<"id", "x">>],
     [declared |-> <<"id", "x", "rid">>, columns |-> <<"id", "x", "rid">>],
     [declared |-> <<"id", "x">>, columns |-> <<"id", "x", "rid">>]}

LeftCell(name, key) ==
    IF name = "id" THEN IntCell(key)
    ELSE IF name = "x" THEN FloatCell(5)
    ELSE IntCell(9)

LeftDatasets ==
    {[meta |-> HMeta(l.declared, l.declared),
      data |-> [columns |-> l.columns,
                rows |-> [i \in 1..NRows |->
                            [j \in DOMAIN l.columns |->
                                LeftCell(l.columns[j], keys[i])]]]] :
        l \in LeftLayouts, keys \in [1..NRows -> {1, 2}]}

\* the right: NRows rows with the key 1, 2 or 3 (3 is no key of the left),
\* x = 7.0 or missing and y = 8.0; its data file set lists x or not
RightLayouts ==
    {[columns |-> <<key, "x", "y">>,
      items |-> IF listed THEN <<key, "x", "y">> ELSE <<key, "y">>] :
        key \in {"id", "rid"}, listed \in BOOLEAN}

RightRows == [key : {1, 2, 3}, x : {NaN, FloatCell(7)}]

RightCell(name, row) ==
    IF name \in {"id", "rid"} THEN IntCell(row.key)
    ELSE IF name = "x" THEN row.x
    ELSE FloatCell(8)

RightDatasets ==
    {[meta |-> HMeta(l.columns, l.items),
      data |-> [columns |-> l.columns,
                rows |-> [i \in 1..NRows |->
                            [j \in DOMAIN l.columns |->
                                RightCell(l.columns[j], rows[i])]]]] :
        l \in RightLayouts, rows \in [1..NRows -> RightRows]}

\* on, left_on, right_on
KeyChoices ==
    {<<"id", "None", "None">>, <<"None", "id", "rid">>,
     <<"None", "None", "None">>}

MergeExistingNone == [all |-> FALSE, names |-> <<>>]

InitHmerge ==
    /\ pc = "start"
    /\ stack = <<>>
    /\ left \in LeftDatasets
    /\ right \in RightDatasets
    /\ margs = NoArgs
    /\ out = NoArgs
    /\ M = NoFrame
    /\ cargs = NoArgs
    /\ S = <<>>
    /\ E = NoFrame
    /\ N = <<>>
    /\ data = <<>>
    /\ meta = <<>>
    /\ rargs = NoArgs
    /\ res = NoArgs

\* out = hmerge(left, right, on, left_on, right_on)
Hmerge ==
    /\ pc = "start"
    /\ \E k \in KeyChoices :
        /\ out' = hmerge(left, right, k[1], k[2], k[3], FALSE, "None",
                         MergeExistingNone)
        /\ margs' = [op |-> "hmerge", on |-> k[1], left_on |-> k[2],
                     right_on |-> k[3]]
    /\ pc' = "hmerged"
    /\ UNCHANGED <<left, right, M, cargs, S, E, N, data, meta, rargs, res, stack>>

NextHmerge == Hmerge

SpecHmerge == InitHmerge /\ [][NextHmerge]_vars

----------------------------------------------------------------------------
(* The hmerge calls on shared columns: both datasets keyed by id and       *)
(* holding the float column x and the delimited set s                      *)

SharedNames == <<"id", "x", "s">>

Str12 == <<"1", ";", "2", ";">>
Str2 == <<"2", ";">>
Str23 == <<"2", ";", "3", ";">>
Str10 == <<"1", "0", ";">>

\* the left: rows keyed 1..NRows with x = 5.0 and s = "1;2;" or "2;"
SharedLeftCell(name, i, sets) ==
    IF name = "id" THEN IntCell(i)
    ELSE IF name = "x" THEN FloatCell(5)
    ELSE StrCell(sets[i])

SharedLefts ==
    {[meta |-> HMeta(SharedNames, SharedNames),
      data |-> [columns |-> SharedNames,
                rows |-> [i \in 1..NRows |->
                            [j \in DOMAIN SharedNames |->
                                SharedLeftCell(SharedNames[j], i, sets)]]]] :
        sets \in [1..NRows -> {Str12, Str2}]}

\* the right: NRows rows with the key 1, 2 or 9 (9 is no key of the left),
\* x and s given or missing
SharedRightRows ==
    [key : {1, 2, 9},
     vals : {[x |-> FloatCell(7), s |-> StrCell(Str23)],
             [x |-> NaN, s |-> StrCell(Str10)],
             [x |-> FloatCell(7), s |-> NaN]}]

SharedRightCell(name, row) ==
    IF name = "id" THEN IntCell(row.key)
    ELSE IF name = "x" THEN row.vals.x
    ELSE row.vals.s

SharedRights ==
    {[meta |-> HMeta(SharedNames, SharedNames),
      data |-> [columns |-> SharedNames,
                rows |-> [i \in 1..NRows |->
                            [j \in DOMAIN SharedNames |->
                                SharedRightCell(SharedNames[j], rows[i])]]]] :
        rows \in [1..NRows -> SharedRightRows]}

\* merge_existing: None, 'all', ['s']
MergeExistings ==
    {MergeExistingNone, [all |-> TRUE, names |-> <<>>],
     [all |-> FALSE, names |-> <<"s">>]}

InitShared ==
    /\ pc = "start"
    /\ stack = <<>>
    /\ left \in SharedLefts
    /\ right \in SharedRights
    /\ margs = NoArgs
    /\ out = NoArgs
    /\ M = NoFrame
    /\ cargs = NoArgs
    /\ S = <<>>
    /\ E = NoFrame
    /\ N = <<>>
    /\ data = <<>>
    /\ meta = <<>>
    /\ rargs = NoArgs
    /\ res = NoArgs

\* out = hmerge(left, right, on='id', merge_existing=merge_existing)
HmergeShared ==
    /\ pc = "start"
    /\ \E merge_existing \in MergeExistings :
        /\ out' = hmerge(left, right, "id", "None", "None", FALSE, "None",
                         merge_existing)
        /\ margs' = [op |-> "hmerge", on |-> "id", left_on |-> "None",
                     right_on |-> "None", merge_existing |-> merge_existing]
    /\ pc' = "hmerged"
    /\ UNCHANGED <<left, right, M, cargs, S, E, N, data, meta, rargs, res, stack>>

NextShared == HmergeShared

SpecShared == InitShared /\ [][NextShared]_vars

----------------------------------------------------------------------------
(* The vmerge calls: a left dataset keyed by id, with the column x and,    *)
(* in some, the column rid or the row id column src; a right dataset with  *)
(* the key id or rid, or both, that brings y                               *)

VColumn(name) ==
    [name |-> name,
     type |-> IF name \in {"id", "rid", "src"} THEN "int" ELSE "float",
     text |-> Txt("en", name)]

\* a document of the named columns, all in its data file set
VMeta(names, text_key) ==
    [columns |-> [k \in DOMAIN names |-> VColumn(names[k])],
     masks |-> <<>>,
     sets |-> <<[name |-> "data file",
                 items |-> [k \in DOMAIN names |-> Source("columns", names[k])]]>>,
     lib |-> <<>>,
     text_key |-> text_key]

\* a dataset of the named columns, its rows made of the keys by cell
VDataset(names, text_key, keys, cell(_, _)) ==
    [meta |-> VMeta(names, text_key),
     data |-> [columns |-> names,
               rows |-> [i \in DOMAIN keys |->
                           [j \in DOMAIN names |-> cell(names[j], keys[i])]]]]

\* the left: the key 1 or 2, x = 5.0, rid = 3, src = 7.0 on the rows of
\* key 1 and missing on the others
VLeftCell(name, key) ==
    IF name = "id" THEN IntCell(key)
    ELSE IF name = "x" THEN FloatCell(5)
    ELSE IF name = "rid" THEN IntCell(3)
    ELSE IF key = 1 THEN FloatCell(7) ELSE NaN

VLefts ==
    {VDataset(names, "en", keys, VLeftCell) :
        names \in {<<"id", "x">>, <<"id", "x", "rid">>, <<"id", "x", "src">>},
        keys \in [1..NRows -> {1, 2}]}

\* the right: the key 1 or 3 (3 is no key of the left) under id or rid;
\* where it holds both, the key stands under rid and id is 3
VRightCell(name, key) ==
    IF name \in {"id", "rid"} THEN IntCell(key)
    ELSE IF name = "x" THEN FloatCell(6)
    ELSE FloatCell(8)

VBothCell(name, key) ==
    IF name = "rid" THEN IntCell(key)
    ELSE IF name = "id" THEN IntCell(3)
    ELSE FloatCell(8)

VRights ==
    {VDataset(names, "de", keys, VRightCell) :
        names \in {<<"id", "x", "y">>, <<"rid", "x", "y">>},
        keys \in [1..NRows -> {1, 3}]}
    \cup {VDataset(<<"id", "rid", "y">>, "de", keys, VBothCell) :
            keys \in [1..NRows -> {1, 3}]}

\* on, left_on, right_on
VKeyChoices ==
    {<<"None", "None", "None">>, <<"id", "None", "None">>,
     <<"None", "id", "rid">>}

\* row_id_name, left_id, right_id
VIdChoices ==
    {<<"None", NoId, NoId>>, <<"src", IntCell(1), IntCell(2)>>,
     <<"src", NoId, IntCell(2)>>, <<"src", IntCell(1), FloatCell(2)>>,
     <<"src", StrCell(<<"a">>), IntCell(2)>>, <<"src", NoId, NoId>>}

VArgs(k, ids) ==
    [op |-> "vmerge", on |-> k[1], left_on |-> k[2], right_on |-> k[3],
     row_id_name |-> ids[1], left_id |-> ids[2], right_id |-> ids[3],
     overwrite_text |-> FALSE, from_set |-> "None"]

InitVmerge ==
    /\ pc = "start"
    /\ stack = <<>>
    /\ left \in VLefts
    /\ right \in VRights
    /\ margs = NoArgs
    /\ out = NoArgs
    /\ M = NoFrame
    /\ cargs = NoArgs
    /\ S = <<>>
    /\ E = NoFrame
    /\ N = <<>>
    /\ data = <<>>
    /\ meta = <<>>
    /\ rargs = NoArgs
    /\ res = NoArgs

\* out = vmerge(left, right, on=, left_on=, right_on=, row_id_name=,
\*              left_id=, right_id=)
Vmerge ==
    /\ pc = "start"
    /\ \E k \in VKeyChoices, ids \in VIdChoices :
        /\ out' = vmerge(left, right, VArgs(k, ids))
        /\ margs' = VArgs(k, ids)
    /\ pc' = "vmerged"
    /\ UNCHANGED <<left, right, M, cargs, S, E, N, data, meta, rargs, res, stack>>

NextVmerge == Vmerge

SpecVmerge == InitVmerge /\ [][NextVmerge]_vars

(* The chained vmerge calls: the datasets A = left and B, C = right[1],    *)
(* right[2], all keyed by id, B and C bringing y or z                      *)

VChainCell(name, key) ==
    IF name = "id" THEN IntCell(key)
    ELSE IF name = "y" THEN FloatCell(8)
    ELSE FloatCell(9)

VChained ==
    {VDataset(names, "de", keys, VChainCell) :
        names \in {<<"id", "y">>, <<"id", "z">>},
        keys \in [1..NRows -> {1, 3}]}

InitChain ==
    /\ pc = "start"
    /\ stack = <<>>
    /\ left \in {VDataset(<<"id", "x">>, "en", keys, VLeftCell) :
                    keys \in [1..NRows -> {1, 2}]}
    /\ right \in {<<b, c>> : b \in VChained, c \in VChained}
    /\ margs = NoArgs
    /\ out = NoArgs
    /\ M = NoFrame
    /\ cargs = NoArgs
    /\ S = <<>>
    /\ E = NoFrame
    /\ N = <<>>
    /\ data = <<>>
    /\ meta = <<>>
    /\ rargs = NoArgs
    /\ res = NoArgs

\* out = vmerge(datasets=[left, right[1], right[2]], on=)
VmergeChain ==
    /\ pc = "start"
    /\ \E k \in {<<"None", "None", "None">>, <<"id", "None", "None">>} :
        /\ out' = vmerge_datasets(<<left>> \o right, <<>>,
                                  VArgs(k, <<"None", NoId, NoId>>))
        /\ margs' = VArgs(k, <<"None", NoId, NoId>>)
    /\ pc' = "chained"
    /\ UNCHANGED <<left, right, M, cargs, S, E, N, data, meta, rargs, res, stack>>

NextChain == VmergeChain

SpecChain == InitChain /\ [][NextChain]_vars

(* The calls of hmerge and vmerge on the caller's objects: left and right  *)
(* are what the caller's objects hold, M binds the names of the call to    *)
(* objects, E is what the objects made by the call hold, res is what the   *)
(* caller's objects held before the call                                   *)

OwnedArgs ==
    {[VArgs(k, ids) EXCEPT !.op = "vmerge"] : k \in VKeyChoices, ids \in VIdChoices}
    \cup {[op |-> "hmerge", on |-> k[1], left_on |-> k[2], right_on |-> k[3],
           overwrite_text |-> FALSE, from_set |-> "None",
           merge_existing |-> MergeExistingNone] : k \in VKeyChoices}

InitOwned ==
    /\ pc = "start"
    /\ stack = <<>>
    /\ left \in VLefts
    /\ right \in VRights
    /\ margs = NoArgs
    /\ out = NoArgs
    /\ M = NoFrame
    /\ cargs = NoArgs
    /\ S = <<>>
    /\ E = NoFrame
    /\ N = <<>>
    /\ data = <<>>
    /\ meta = <<>>
    /\ rargs = NoArgs
    /\ res = NoArgs

\* the value of an object
ValueAt(ref) ==
    IF ref = "left.meta" THEN left.meta
    ELSE IF ref = "left.data" THEN left.data
    ELSE IF ref = "right.meta" THEN right.meta
    ELSE IF ref = "right.data" THEN right.data
    ELSE E[ref]

\* the dataset the names of a side are bound to
BoundLeft == [meta |-> ValueAt(M.meta_left), data |-> ValueAt(M.data_left)]
BoundRight == [meta |-> ValueAt(M.meta_right), data |-> ValueAt(M.data_right)]

\* the caller calls hmerge or vmerge on (left.meta, left.data) and
\* (right.meta, right.data)
Enter ==
    /\ pc = "start"
    /\ \E a \in OwnedArgs : margs' = a
    /\ res' = [left |-> left, right |-> right]
    /\ pc' = "entered"
    /\ UNCHANGED <<left, right, out, M, cargs, S, E, N, data, meta, rargs, stack>>

\* the arguments are refused (lines 1483-1496, 1683-1698), or the call
\* binds its names (lines 1498-1504, 1700-1712)
CopyIn ==
    /\ pc = "entered"
    /\ IF CallKeys(margs).raised # "none"
       THEN /\ out' = [raised |-> CallKeys(margs).raised, meta |-> <<>>,
                       data |-> NoData, parts |-> {}]
            /\ pc' = "raised"
            /\ UNCHANGED <<M, E>>
       ELSE /\ M' = Bound(margs.op)
            /\ E' = [ref \in {Bound(margs.op)[name] : name \in Names} \ CallerRefs |->
                        ValueAt(Origin(CHOOSE name \in Names :
                                           Bound(margs.op)[name] = ref))]
            /\ pc' = "copied"
            /\ out' = out
    /\ UNCHANGED <<left, right, margs, cargs, S, N, data, meta, rargs, res, stack>>

\* the object a name is bound to holds what the call wrote to it
Held(ref, written) ==
    IF \E name \in Names : M[name] = ref
    THEN written[CHOOSE name \in Names : M[name] = ref]
    ELSE ValueAt(ref)

\* the body of the call on the bound objects; the document returned is the
\* object bound to meta_left, which holds column objects of meta_right
Body ==
    /\ pc = "copied"
    /\ \E r \in {CallResult(BoundLeft, BoundRight, margs)},
          w \in {CallWrites(BoundLeft, BoundRight, margs)} :
        /\ out' = [raised |-> r.raised, meta |-> r.meta, data |-> r.data,
                   parts |-> IF r.raised = "none"
                             THEN {M.meta_left, M.meta_right} ELSE {}]
        /\ pc' = IF r.raised = "none" THEN "returned" ELSE "raised"
        /\ left' = [meta |-> Held("left.meta", w), data |-> Held("left.data", w)]
        /\ right' = [meta |-> Held("right.meta", w), data |-> Held("right.data", w)]
        /\ E' = [ref \in DOMAIN E |-> Held(ref, w)]
    /\ UNCHANGED <<margs, M, cargs, S, N, data, meta, rargs, res, stack>>

NextOwned == Enter \/ CopyIn \/ Body

SpecOwned == InitOwned /\ [][NextOwned]_vars

(* The crosstab calls: left is the table of x by y, right what frequency   *)
(* of x raises or returns                                                  *)

\* the codes of x
XLabels == 1..(NRows + 1)

\* the indexes of a table: the codes of x that the rules keep, in the order
\* the rules give them
XIndexes ==
    {index \in UNION {[1..n -> XLabels] : n \in 1..NRows} :
        \A i, j \in DOMAIN index : i # j => index[i] # index[j]}

\* the table of x by the two codes of y
CrossTable(index) ==
    [index |-> index, columns |-> <<"y1", "y2">>,
     rows |-> [i \in DOMAIN index |->
                 <<FloatCell(10 * index[i] + 1), FloatCell(10 * index[i] + 2)>>]]

\* the frequency of x
FreqTable(index) ==
    [index |-> index, columns |-> <<"@">>,
     rows |-> [i \in DOMAIN index |-> <<FloatCell(20 * index[i] + 3)>>]]

InitCrosstab ==
    /\ pc = "start"
    /\ stack = <<>>
    /\ left \in {CrossTable(index) : index \in XIndexes}
    /\ right \in {[raised |-> "none", table |-> FreqTable(index)] : index \in XIndexes}
               \cup {[raised |-> "KeyError", table |-> NoTable]}
    /\ margs = NoArgs
    /\ out = NoArgs
    /\ M = NoFrame
    /\ cargs = NoArgs
    /\ S = <<>>
    /\ E = NoFrame
    /\ N = <<>>
    /\ data = <<>>
    /\ meta = <<>>
    /\ rargs = NoArgs
    /\ res = NoArgs

\* out = crosstab(meta, data, x, y, get=, xtotal=)
Crosstab ==
    /\ pc = "start"
    /\ \E get \in {"count", "normalize", "mean"}, xtotal \in BOOLEAN, array \in BOOLEAN :
        /\ out' = crosstab(left, right, get, xtotal, array)
        /\ margs' = [op |-> "crosstab", get |-> get, xtotal |-> xtotal,
                     array |-> array]
    /\ pc' = "crossed"
    /\ UNCHANGED <<left, right, M, cargs, S, E, N, data, meta, rargs, res, stack>>

NextCrosstab == Crosstab

SpecCrosstab == InitCrosstab /\ [][NextCrosstab]_vars

----------------------------------------------------------------------------
(* Properties of the codec *)

IsYes(c) == IsNum(c) /\ c.v = 1

\* the positions of the columns of M that are yes in row i, in column order
YesColumns(i) ==
    SelectSeq([j \in DOMAIN M.columns |-> j], LAMBDA j : IsYes(M.rows[i][j]))

\* the code a column of M stands for: what follows "q_", or its position
ExpectedCode(j) ==
    IF cargs.values_from_labels
    THEN SubSeq(M.columns[j], 3, Len(M.columns[j]))
    ELSE IntToStr(j)

YesCodes(i) == [k \in DOMAIN YesColumns(i) |-> ExpectedCode(YesColumns(i)[k])]

\* the ';'-terminated tokens of a string cell
Tokens(cell) == ButLast(Split(cell.s, ";"))

Terminated(cell) == cell.k = "str" /\ cell.s # <<>> /\ cell.s[Len(cell.s)] = ";"

AscendingCodes(codes) ==
    SortSeq(codes, LAMBDA a, b : IntOfFloatStr(a) < IntOfFloatStr(b))

Condensed == pc # "start" /\ ~cargs.sniff_single

\* C6 as claimed: every row with a yes column holds the codes of its yes
\* columns in ascending order, ';'-joined and ';'-terminated, whatever the
\* order of the columns.
C6_Original ==
    Condensed =>
        \A i \in DOMAIN M.rows :
            YesColumns(i) # <<>> =>
                /\ Terminated(S[i])
                /\ Tokens(S[i]) = AscendingCodes(YesCodes(i))

\* C6 amended: every row with a yes column holds the codes of exactly its
\* yes columns in the order of the supplied columns, ';'-joined and
\* ';'-terminated (so ascending when the columns are supplied ascending).
C6_ColumnOrder ==
    Condensed =>
        \A i \in DOMAIN M.rows :
            YesColumns(i) # <<>> =>
                /\ Terminated(S[i])
                /\ Tokens(S[i]) = YesCodes(i)
                /\ S[i].s = Join(YesCodes(i), ";") \o <<";">>

C6_Witness ==
    /\ pc = "condensed"
    /\ ~cargs.sniff_single
    /\ cargs.values_from_labels
    /\ M.columns = <<ColumnName(3), ColumnName(1)>>
    /\ \E i \in DOMAIN M.rows :
        /\ Len(YesColumns(i)) = 2
        /\ S[i] = StrCell(<<"3", ";", "1", ";">>)

\* C7: a row in which no column equals yes is missing in the result, never
\* an empty string or a bare ';', and condense does not raise, with or
\* without sniff_single.
C7_NoYesIsMissing ==
    pc # "start" =>
        /\ S # RaisedSeries
        /\ Len(S) = Len(M.rows)
        /\ \A i \in DOMAIN M.rows :
            /\ YesColumns(i) = <<>> => S[i] = NaN
            /\ S[i] \notin {StrCell(<<>>), StrCell(<<";">>)}

C7_Witness ==
    /\ pc = "condensed"
    /\ cargs.sniff_single
    /\ \A i \in DOMAIN M.rows : YesColumns(i) = <<>>
    /\ \E i \in DOMAIN M.rows : \E j \in DOMAIN M.columns : M.rows[i][j] = NaN
    /\ \A i \in DOMAIN S : S[i] = NaN

\* the universe passed to expand is the string codes of the columns of M
StringUniverse ==
    /\ ~cargs.value_map.none
    /\ cargs.value_map.labels =
          [j \in DOMAIN M.columns |-> StrCell(ExpectedCode(j))]

HasToken(cell, str) == cell.k = "str" /\ str \in Range(Tokens(cell))

\* the universe holds strings, and every token of the series among them
CoveringStrings(labels) ==
    /\ \A j \in DOMAIN labels : labels[j].k = "str"
    /\ \A i \in DOMAIN S : S[i].k = "str" =>
          \A t \in Range(Tokens(S[i])) : StrCell(t) \in Range(labels)

Dichotomous01 ==
    /\ \A i \in DOMAIN M.rows : \A j \in DOMAIN M.columns :
          IsNum(M.rows[i][j]) /\ M.rows[i][j].v \in {0, 1}
    /\ \A i \in DOMAIN M.rows : YesColumns(i) # <<>>

RoundTrip ==
    /\ pc = "expanded"
    /\ ~cargs.sniff_single
    /\ StringUniverse
    /\ Dichotomous01

SameCells ==
    /\ E.raised = "none"
    /\ Len(E.rows) = Len(M.rows)
    /\ \A i \in DOMAIN M.rows :
          /\ Len(E.rows[i]) = Len(M.rows[i])
          /\ \A j \in DOMAIN M.columns : E.rows[i][j] = M.rows[i][j].v

\* C9 as claimed: expand(condense(M), universe = codes of M's columns)
\* equals M cell for cell when no row of M has zero selections.
C9_Original == RoundTrip => SameCells

\* C9 amended: expand(condense(M), universe = the string codes of M's
\* columns, dichotom=[1, 0]) equals M cell for cell when no row of the 0/1
\* matrix M has zero selections.
C9_RoundTrip10 == (RoundTrip /\ cargs.dichotom = <<1, 0>>) => SameCells

C9_Witness ==
    /\ RoundTrip
    /\ cargs.dichotom = <<1, 0>>
    /\ Len(M.columns) = 2
    /\ \E i \in DOMAIN M.rows : \E j, k \in DOMAIN M.columns :
          M.rows[i][j].v = 0 /\ E.rows[i][j] = 0 /\ E.rows[i][k] = 1
    /\ \E i \in DOMAIN M.rows : \A j \in DOMAIN M.columns : E.rows[i][j] = 1

\* a canonical delimited-set cell: missing, or whole-number codes strictly
\* ascending, each written as str(int), ';'-terminated
CanonicalCell(cell) ==
    \/ cell = NaN
    \/ /\ Terminated(cell)
       /\ Tokens(cell) # <<>>
       /\ \A k \in DOMAIN Tokens(cell) :
             Tokens(cell)[k] = IntToStr(IntOfFloatStr(Tokens(cell)[k]))
       /\ \A k \in 1..(Len(Tokens(cell)) - 1) :
             IntOfFloatStr(Tokens(cell)[k]) < IntOfFloatStr(Tokens(cell)[k + 1])

Canonical(series) == \A i \in DOMAIN series : CanonicalCell(series[i])

\* C10: splitting a canonical delimited-set series into its dichotomous
\* columns and condensing it again returns the same series row for row,
\* multi-digit codes included.
C10_Idempotent == (pc = "recondensed" /\ Canonical(S)) => N = S

C10_Witness ==
    /\ pc = "recondensed"
    /\ Canonical(S)
    /\ \E i \in DOMAIN S : S[i] = StrCell(<<"3", ";", "1", "0", ";">>)
    /\ \E i \in DOMAIN S : S[i] = NaN
    /\ N = S

----------------------------------------------------------------------------
(* Properties of recode *)

Recoded == pc = "recoded" /\ res.raised = "none"

TargetType == meta["tgt"].type

\* the mapper keys whose resolved row-index contains row i
KeysAt(i) ==
    {res.index_map[k].key :
        k \in {x \in DOMAIN res.index_map : i \in res.index_map[x].idx}}

\* the position of the last mapper entry whose row-index contains row i
LastAt(i) ==
    LET hits == {x \in DOMAIN res.index_map : i \in res.index_map[x].idx}
    IN CHOOSE x \in hits : \A y \in hits : y <= x

\* C1: with append=True on a delimited-set target every row of the result
\* holds the union of the codes of the seeded series at that row and the
\* mapper keys whose row-index contains it; a row missing in the seed but
\* selected by a key is not missing, a seeded row selected by no key keeps
\* its codes.
C1_AppendUnion ==
    (/\ Recoded
     /\ TargetType = "delimited set"
     /\ rargs.append
     /\ rargs.fillna.none) =>
        \A i \in DOMAIN res.series :
            /\ CellCodes(res.series[i])
                  = CellCodes(res.seed[i]) \cup KeysAt(i)
            /\ CanonicalCell(res.series[i])

\* C2: when the index map selects no row at all, recode raises nothing and
\* returns the seeded series row for row, with append=True and with
\* append=False, whether or not the seed holds data.
C2_ZeroRowsKeepSeed ==
    (/\ pc = "recoded"
     /\ "tgt" \in DOMAIN meta
     /\ TargetType = "delimited set"
     /\ rargs.fillna.none
     /\ \A i \in DOMAIN data["src"] : KeysAt(i) = {}
     /\ DType(res.seed) = "object" \/ AllNull(res.seed)) =>
        /\ res.raised = "none"
        /\ res.series = res.seed

\* C3: recode leaves every column of the dataset it is given as it was,
\* whether it returns or raises.
C3_DataUntouched == [][data' = data]_vars

C3_Witness ==
    /\ Recoded
    /\ TargetType = "single"
    /\ "tgt" \in DOMAIN data
    /\ rargs.initialize = "None"
    /\ ~rargs.fillna.none
    /\ \E i \in DOMAIN res.series :
          KeysAt(i) # {} /\ res.series[i] # data["tgt"][i] /\ ~IsNull(data["tgt"][i])
    /\ \E i \in DOMAIN res.series :
          IsNull(data["tgt"][i]) /\ ~IsNull(res.series[i])

C5_FillnaFillsAll ==
    (Recoded /\ ~rargs.fillna.none) =>
        \A i \in DOMAIN res.series :
            /\ ~IsNull(res.series[i])
            /\ (KeysAt(i) = {} /\ IsNull(res.seed[i])) =>
                  IF TargetType = "delimited set"
                  THEN res.series[i]
                          = StrCell(IntToStr(rargs.fillna.value) \o <<";">>)
                  ELSE IsNum(res.series[i])
                       /\ res.series[i].v = rargs.fillna.value

----------------------------------------------------------------------------
(* Properties of index_mapper and of the validation of recode *)

\* the rows of the dataset where the column holds any of the codes
HasAnyRows(col, codes) ==
    {i \in DOMAIN data[col] : CellCodes(data[col][i]) \cap codes # {}}

\* the rows the intersect of the call selects (every row when none is given)
IntersectRows ==
    IF rargs.intersect.none THEN DOMAIN data["src"]
    ELSE HasAnyRows(rargs.intersect.col, rargs.intersect.codes)

ListEntries == {k \in DOMAIN rargs.mapper : rargs.mapper[k].val.kind = "list"}

\* every entry that names a column names one the dataset has
OthersResolvable ==
    \A k \in DOMAIN rargs.mapper :
        rargs.mapper[k].val.kind # "list" => rargs.mapper[k].val.col \in DOMAIN data

\* C11: index_mapper with a bare list among the mapper values fails and
\* returns no index map when default is not supplied; with default supplied
\* the call does not fail over the list, and the index of the list's key is
\* that of {default: has_any(list)}: the rows where the default column has
\* any of the codes (within the intersect, when one is given).
C11_BareList ==
    (pc = "mapped" /\ ListEntries # {}) =>
        IF rargs.default = "None"
        THEN res.raised # "none" /\ res.index_map = <<>>
        ELSE /\ OthersResolvable => res.raised = "none"
             /\ res.raised = "none" =>
                   \A k \in ListEntries :
                      res.index_map[k].idx =
                         HasAnyRows(rargs.default, rargs.mapper[k].val.codes)
                            \cap IntersectRows

C11_Witness ==
    /\ pc = "mapped"
    /\ rargs.default = "src"
    /\ rargs.intersect.none
    /\ res.raised = "none"
    /\ \E k \in ListEntries :
          /\ rargs.mapper[k].val.codes = {3}
          /\ res.index_map[k].idx # {}
          /\ res.index_map[k].idx # DOMAIN data["src"]

\* C12: with intersect given, the index of every mapper key is the
\* intersection of the index its logic resolves to without intersect and
\* the index of the intersect logic, so no index holds a row outside the
\* intersect selection.
C12_IntersectScopes ==
    (/\ pc = "mapped"
     /\ ~rargs.intersect.none
     /\ index_mapper(meta, data, rargs.mapper, rargs.default, NoLogic).raised
           = "none") =>
        /\ res.raised = "none"
        /\ \A k \in DOMAIN res.index_map :
              res.index_map[k].idx =
                 index_mapper(meta, data, rargs.mapper, rargs.default,
                              NoLogic).index_map[k].idx
                    \cap IntersectRows

\* C13: recode refuses the configuration before any logic is resolved: a
\* target that meta does not declare raises and returns no series, and so
\* does append=True for a target whose type is not 'delimited set', also
\* when resolving the mapper would itself have failed.
C13_ValidatesFirst ==
    pc = "recoded" =>
        /\ "tgt" \notin DOMAIN meta =>
              /\ res.raised = "ValueError"
              /\ res.series = <<>>
              /\ res.index_map = <<>>
        /\ ("tgt" \in DOMAIN meta /\ rargs.append
                /\ meta["tgt"].type # "delimited set") =>
              /\ res.raised = "TypeError"
              /\ res.series = <<>>
              /\ res.index_map = <<>>

C13_Witness ==
    /\ pc = "recoded"
    /\ "tgt" \in DOMAIN meta
    /\ meta["tgt"].type = "single"
    /\ rargs.append
    /\ rargs.default = "src"
    /\ \E k \in DOMAIN rargs.mapper : rargs.mapper[k].val.col = "gone"
    /\ res.raised = "TypeError"
    /\ res.series = <<>>

----------------------------------------------------------------------------
(* Properties of the metadata merge *)

\* t is the text l merged with the text r: the locales of both, the label
\* of l kept where l has one unless overwrite replaces it by that of r
TextMerged(t, l, r, overwrite) ==
    /\ DOMAIN t = DOMAIN l \cup DOMAIN r
    /\ \A tk \in DOMAIN t :
          t[tk] = IF tk \in DOMAIN l /\ ~(overwrite /\ tk \in DOMAIN r)
                  THEN l[tk] ELSE r[tk]

\* vs is the list l merged with the list r by value id
ValuesMerged(vs, l, r, overwrite) ==
    /\ Len(vs) >= Len(l)
    /\ \A i \in DOMAIN l :
          /\ vs[i].value = l[i].value
          /\ IF \E j \in DOMAIN r : r[j].value = l[i].value
             THEN \A j \in DOMAIN r :
                     r[j].value = l[i].value =>
                        TextMerged(vs[i].text, l[i].text, r[j].text, overwrite)
             ELSE vs[i] = l[i]
    /\ SubSeq(vs, Len(l) + 1, Len(vs))
          = SelectSeq(r, LAMBDA v : v.value \notin Range(Ids(l)))
    /\ \A i \in DOMAIN l :
          Cardinality({k \in DOMAIN l : l[k].value = l[i].value}) = 1 =>
             Cardinality({k \in DOMAIN vs : vs[k].value = l[i].value}) = 1

\* C14: merging a left column typed int with a right column typed single
\* warns and does not fail, and the left column comes back with the texts
\* merged and, where both hold values, the value lists merged; two columns
\* of the same type merge with neither a warning nor an error.
C14_IntSingleWarns ==
    pc = "merged" =>
        /\ (left.type = "int" /\ right.type = "single") =>
              /\ out.raised = "none"
              /\ out.warned
              /\ TextMerged(out.column.text, left.text, right.text,
                            margs.overwrite)
              /\ ("values" \in DOMAIN left /\ "values" \in DOMAIN right) =>
                    ValuesMerged(out.column.values, left.values, right.values,
                                 margs.overwrite)
        /\ left.type = right.type =>
              /\ out.raised = "none"
              /\ ~out.warned
              /\ TextMerged(out.column.text, left.text, right.text,
                            margs.overwrite)

C14_Witness ==
    /\ pc = "merged"
    /\ left.type = "int"
    /\ right.type = "single"
    /\ ~margs.overwrite
    /\ out.warned
    /\ out.raised = "none"
    /\ "values" \in DOMAIN out.column
    /\ Ids(out.column.values) = <<1, 2>>
    /\ DOMAIN out.column.values[1].text = {"en", "de"}
    /\ DOMAIN out.column.text = {"en", "de"}

\* the directed warning table: the right types each left type merges with
\* under a warning
WarningTable(l_type) ==
    CASE l_type = "int" -> {"single"}
      [] l_type = "float" -> {"int", "single"}
      [] l_type = "delimited set" -> {"single"}
      [] l_type = "string" -> {"boolean"}
      [] OTHER -> {}

\* C15: for every ordered pair of distinct types the check either warns,
\* when the pair is in the directed warning table, or raises an error that
\* names the column and both types; no such pair merges silently; a left
\* single fails with every other right type, left int / right single warns.
C15_WarnOrRaise ==
    (pc = "merged" /\ left.type # right.type) =>
        /\ out.warned # (out.raised # "none")
        /\ out.warned <=> right.type \in WarningTable(left.type)
        /\ out.raised # "none" =>
              out.msg = <<left.name, left.type, right.type>>
        /\ left.type = "single" => out.raised # "none"
        /\ (left.type = "int" /\ right.type = "single") => out.warned

\* C16: merge_values_meta keeps every left value at its position, appends
\* the right values whose id the left does not hold in the order of the
\* right, leaves an id that occurred once in the left occurring once, and
\* merges the text of an id both hold: the locales of the right are added,
\* a locale the left holds is replaced only when overwrite is true.
C16_ValuesById == pc = "merged" => ValuesMerged(out, left, right, margs.overwrite)

C16_Witness ==
    /\ pc = "merged"
    /\ ~margs.overwrite
    /\ Len(left) = 2
    /\ Len(right) = 2
    /\ Len(out) = 3
    /\ \E i \in DOMAIN left : \E j \in DOMAIN right :
          /\ left[i].value = right[j].value
          /\ DOMAIN left[i].text # DOMAIN right[j].text
          /\ out[i].text = [tk \in Locales |-> IF tk \in DOMAIN left[i].text
                                              THEN "L" ELSE "R"]
    /\ out[3] = right[1]

\* the set the call merges from
FromSet == IF margs.from_set = "None" THEN "data file" ELSE margs.from_set

\* the names of the columns of a document, in the order of its columns
ColumnNames(doc) == [k \in DOMAIN doc.columns |-> doc.columns[k].name]

\* the columns the merge added to the left, in the order they stand in
NewColumns ==
    SelectSeq(ColumnNames(out.meta), LAMBDA c : c \notin Range(ColumnNames(left)))

RECURSIVE ItemColumns(_)
\* the columns the items of a set of the right name, a mask standing for
\* the columns among its items
ItemColumns(items) ==
    IF items = <<>> THEN <<>>
    ELSE (IF Head(items).kind = "columns" THEN <<Head(items).name>>
          ELSE LET mask == Get(right.masks, Head(items).name)
               IN [k \in DOMAIN mask.items |-> mask.items[k].source.name])
         \o ItemColumns(Tail(items))

\* x comes before y in the sequence (by first occurrence)
Before(seq, x, y) ==
    \E i \in DOMAIN seq :
        /\ seq[i] = x
        /\ \A j \in 1..i : seq[j] # y

\* the place of a column name in case-insensitive alphanumeric order
LowerRank(name) ==
    CASE name = "a" -> 1 [] name = "B" -> 2 [] name = "c" -> 3 [] OTHER -> 4

\* C17: merge_meta appends the new columns in the order of
\* right.sets[from_set] when the right has that set, and otherwise
\* completes the merge with the right's columns taken in case-insensitive
\* alphanumeric order of their names.
C17_NewColumnOrder ==
    pc = "merged" =>
        IF Has(right.sets, FromSet)
        THEN out.raised = "none" =>
                \A i, j \in DOMAIN NewColumns :
                    i < j => Before(ItemColumns(Get(right.sets, FromSet).items),
                                    NewColumns[i], NewColumns[j])
        ELSE /\ out.raised = "none"
             /\ Range(NewColumns) = Range(ColumnNames(right)) \ Range(ColumnNames(left))
             /\ \A i, j \in DOMAIN NewColumns :
                    i < j => LowerRank(NewColumns[i]) < LowerRank(NewColumns[j])

\* C18: merge_meta never removes or replaces a value of a lib.values entry
\* of the left: every value the list held is at its position afterwards,
\* and for a name both sides hold only right values whose id the left list
\* did not hold are appended.
C18_LibValuesKept ==
    pc = "merged" =>
        \A k \in DOMAIN left.lib :
            /\ Has(out.meta.lib, left.lib[k].name)
            /\ SubSeq(Get(out.meta.lib, left.lib[k].name).values, 1,
                      Len(left.lib[k].values)) = left.lib[k].values
            /\ Len(Get(out.meta.lib, left.lib[k].name).values)
                  >= Len(left.lib[k].values)
            /\ \A i \in DOMAIN Get(out.meta.lib, left.lib[k].name).values :
                  i > Len(left.lib[k].values) =>
                     /\ Has(right.lib, left.lib[k].name)
                     /\ Get(out.meta.lib, left.lib[k].name).values[i]
                           \in Range(Get(right.lib, left.lib[k].name).values)
                     /\ Get(out.meta.lib, left.lib[k].name).values[i].value
                           \notin Range(Ids(left.lib[k].values))

C18_Witness ==
    /\ pc = "merged"
    /\ out.raised = "none"
    /\ Has(left.lib, "lv")
    /\ Ids(Get(left.lib, "lv").values) = <<1, 2>>
    /\ Ids(Get(right.lib, "lv").values) = <<1, 3>>
    /\ Get(out.meta.lib, "lv").values
          = <<Val(1, "en", "L"), Val(2, "en", "L"), Val(3, "en", "R")>>

----------------------------------------------------------------------------
(* hmerge: rows and columns of the merged data                             *)

\* the join keys of the call
LeftOn == KeyArgs(margs.on, margs.left_on, margs.right_on).left_on
RightOn == KeyArgs(margs.on, margs.left_on, margs.right_on).right_on

\* hmerge returned
Hmerged == pc = "hmerged" /\ out.raised = "none"

\* C19: the data hmerge returns has exactly as many rows as the left data,
\* and row i of it holds the key of row i of the left, whatever keys the
\* rows of the right hold (one key on several rows, keys the left has not)
C19_LeftRowCount ==
    Hmerged =>
        /\ Len(out.data.rows) = Len(left.data.rows)
        /\ \A i \in DOMAIN left.data.rows :
              i \in DOMAIN out.data.rows
              /\ ColumnSeries(out.data, LeftOn)[i]
                    = ColumnSeries(left.data, LeftOn)[i]

\* C20: the data hmerge returns holds no column name twice and no column
\* <key>_x or <key>_y for a join key, with on and with left_on # right_on
\* where the right key is a column of the left as well
C20_NoDuplicateKey ==
    Hmerged =>
        /\ \A i, j \in DOMAIN out.data.columns :
              i # j => out.data.columns[i] # out.data.columns[j]
        /\ \A key \in {LeftOn, RightOn} :
              /\ ~HasColumn(out.data, key \o "_x")
              /\ ~HasColumn(out.data, key \o "_y")

----------------------------------------------------------------------------
(* hmerge: the columns both datasets hold                                  *)

\* the columns, the key apart, that the data of both datasets hold
SharedColumns ==
    {c \in Range(left.data.columns) \cap Range(right.data.columns) :
        c \notin {LeftOn, RightOn}}

\* col is a delimited set that merge_existing names
Unioned(col) ==
    /\ Get(left.meta.columns, col).type = "delimited set"
    /\ Flagged(margs.merge_existing, col)

\* the rows of the right with the key of left row i
MatchedRows(i) ==
    {j \in DOMAIN right.data.rows :
        KeyEq(ColumnSeries(right.data, RightOn)[j],
              ColumnSeries(left.data, LeftOn)[i])}

\* C21: a column of both datasets that merge_existing does not flag stands
\* once in the returned data and holds, at each row of the left, the value
\* of a right row of the same key that is not missing, or else the value
\* the left held
C21_SharedUpdated ==
    Hmerged =>
        \A c \in SharedColumns :
            ~Unioned(c) =>
                /\ Cardinality({j \in DOMAIN out.data.columns :
                                   out.data.columns[j] = c}) = 1
                /\ \A i \in DOMAIN left.data.rows :
                      /\ i \in DOMAIN out.data.rows
                      /\ IF \E j \in MatchedRows(i) :
                               ~IsNull(ColumnSeries(right.data, c)[j])
                         THEN \E j \in MatchedRows(i) :
                                 /\ ~IsNull(ColumnSeries(right.data, c)[j])
                                 /\ ColumnSeries(out.data, c)[i]
                                       = ColumnSeries(right.data, c)[j]
                         ELSE ColumnSeries(out.data, c)[i]
                                 = ColumnSeries(left.data, c)[i]

\* the codes in ascending numeric order, each followed by ';'
CodesCell(codes) ==
    IF codes = {} THEN NaN
    ELSE StrCell(Join([k \in 1..Cardinality(codes) |->
                          IntToStr(CHOOSE x \in codes :
                              Cardinality({y \in codes : y < x}) = k - 1)], ";")
                 \o <<";">>)

\* C22: in a delimited set of both datasets that merge_existing flags, a
\* row of the left whose key a right row holds ends with the codes of both,
\* each once, in ascending numeric order and ';'-terminated
C22_CodesUnioned ==
    Hmerged =>
        \A c \in SharedColumns :
            Unioned(c) =>
                \A i \in DOMAIN left.data.rows :
                    \A j \in MatchedRows(i) :
                        /\ i \in DOMAIN out.data.rows
                        /\ ColumnSeries(out.data, c)[i]
                              = CodesCell(CellCodes(ColumnSeries(left.data, c)[i])
                                          \cup CellCodes(ColumnSeries(right.data, c)[j]))

----------------------------------------------------------------------------
(* Traversal of masks and sets                                             *)

\* the masks and sets a document can name
Containers == [kind : {"sets", "masks"}, name : {"data file", "g", "m", "k", "z"}]

\* the masks and sets the items of a mask or set name
Refs(doc, node) ==
    IF ~Known(doc, node.kind, node.name) THEN {}
    ELSE {s \in Range(ItemSources(doc, node.kind, node.name)) : s.kind # "columns"}

RECURSIVE Closure(_, _, _)
\* the masks and sets reached from nodes in at most n steps
Closure(doc, nodes, n) ==
    IF n = 0 THEN nodes
    ELSE Closure(doc, nodes \cup UNION {Refs(doc, x) : x \in nodes}, n - 1)

\* node lies on a cycle of references
OnCycle(doc, node) == node \in Closure(doc, Refs(doc, node), Cardinality(Containers))

\* the references of the document hold a cycle / one that the call reaches
HasCycle(doc) == \E node \in Containers : OnCycle(doc, node)
Called == [kind |-> margs.kind, name |-> margs.name]
ReachesCycle ==
    \E node \in Closure(left, {Called}, Cardinality(Containers)) : OnCycle(left, node)
ReachesUnknown ==
    \E node \in Closure(left, {Called}, Cardinality(Containers)) :
        ~Known(left, node.kind, node.name)

\* C27 as stated: a call that returned holds the columns reached in the
\* order of the items (no repeats in the set form), and on a document
\* whose references hold a cycle the call never ends
C27_Original ==
    /\ pc = "returned" => out.cols = get_columns_from(left, margs.kind, margs.name)
    /\ HasCycle(left) => pc \notin {"returned", "raised"}

\* C27: the call always ends.  It returns exactly when it reaches no cycle
\* (and no unknown name), whatever cycles the document holds elsewhere, and
\* then with the columns reached in the order of the items, no repeats in
\* the set form; when it reaches a cycle it never returns: the recursion
\* goes on until the interpreter's limit raises RecursionError
C27_TraversalEnds ==
    /\ [](pc = "returned" =>
            /\ ~ReachesCycle
            /\ out.cols = get_columns_from(left, margs.kind, margs.name))
    /\ [](pc = "raised" =>
            IF out.raised = "RecursionError" THEN ReachesCycle ELSE ReachesUnknown)
    /\ (pc = "walking") ~> (pc \in {"returned", "raised"})
    /\ (pc = "walking" /\ ~ReachesCycle /\ ~ReachesUnknown) ~> (pc = "returned")

\* a set that names a column twice and a mask of two columns is walked to
\* its end on a document holding a cycle elsewhere
C27_Witness ==
    /\ pc = "returned"
    /\ HasCycle(left)
    /\ margs.kind = "sets"
    /\ out.cols = <<"a", "q", "r">>

----------------------------------------------------------------------------
(* vmerge: the rows appended and their ids                                 *)

\* vmerge returned
Vmerged == pc = "vmerged" /\ out.raised = "none"

\* the keys of the call
VLeftOn == VKeys(margs.on, margs.left_on, margs.right_on).left_on
VRightOn == VKeys(margs.on, margs.left_on, margs.right_on).right_on
VBlind == VKeys(margs.on, margs.left_on, margs.right_on).blind_append

\* the rows of the right whose right key is no left key of the left
NewRows ==
    SelectSeq(right.data.rows, LAMBDA row :
        ~\E i \in DOMAIN left.data.rows :
            KeyEq(row[ColumnAt(right.data, VRightOn)],
                  ColumnSeries(left.data, VLeftOn)[i]))

\* the rows of the result hold the left's rows under the left's columns
LeftRowsKept ==
    /\ Len(out.data.rows) >= Len(left.data.rows)
    /\ \A i \in DOMAIN left.data.rows :
          \A c \in Range(left.data.columns) :
              /\ HasColumn(out.data, c)
              /\ KeyEq(ColumnSeries(out.data, c)[i], ColumnSeries(left.data, c)[i])

\* C24: with key columns the result holds the rows of the left unchanged,
\* followed by exactly the rows of the right whose right-key value is no
\* left-key value of the left, also with left_on # right_on
C24_AppendOrSkip ==
    (Vmerged /\ ~VBlind /\ margs.row_id_name = "None") =>
        /\ LeftRowsKept
        /\ HasColumn(right.data, VRightOn)
        /\ Len(out.data.rows) = Len(left.data.rows) + Len(NewRows)
        /\ \A p \in DOMAIN NewRows :
              \A c \in Range(right.data.columns) \ Range(left.data.columns) :
                  /\ HasColumn(out.data, c)
                  /\ KeyEq(ColumnSeries(out.data, c)[Len(left.data.rows) + p],
                           NewRows[p][ColumnAt(right.data, c)])

\* the row id column is new to the left
NewRowId == ~Has(left.meta.columns, margs.row_id_name)

\* the type the ids ask for, and an id as that type holds it
AskedType ==
    IF margs.left_id.k = "int" /\ margs.right_id.k = "int" THEN "int"
    ELSE IF IsNum(margs.left_id) /\ IsNum(margs.right_id) THEN "float"
    ELSE "string"

TagOf(id) ==
    IF ~NewRowId \/ AskedType = "int" THEN id
    ELSE IF AskedType = "float" THEN FloatCell(id.v)
    ELSE StrCell(CellToStr(id))

\* C25: with row_id_name the rows from the left carry left_id (the id they
\* held where they held one) and the rows from the right right_id; the rows
\* of a side whose id is not given carry what they held, or nothing; a new
\* row id column is declared int, float or string after the ids
C25_RowIds ==
    (Vmerged /\ margs.row_id_name # "None") =>
        /\ \A i \in DOMAIN out.data.rows :
              LET held == IF i <= Len(left.data.rows)
                          THEN CellUnder(left.data, i, margs.row_id_name)
                          ELSE NaN
                  id == IF i <= Len(left.data.rows) THEN margs.left_id
                        ELSE margs.right_id
                  tag == CellUnder(out.data, i, margs.row_id_name)
              IN IF id = NoId \/ ~IsNull(held) THEN KeyEq(tag, held)
                 ELSE tag = TagOf(id)
        /\ NewRowId =>
              /\ Has(out.meta.columns, margs.row_id_name)
              /\ Get(out.meta.columns, margs.row_id_name).type = AskedType

\* C26: vmerge(datasets=[A, B, C]) returns what vmerge(vmerge(A, B), C)
\* returns under the same arguments (meta, columns and rows, or the same
\* error), and without keys as many rows as A, B and C hold together
C26_LeftFold ==
    pc = "chained" =>
        /\ IF vmerge(left, right[1], margs).raised # "none"
           THEN out.raised = vmerge(left, right[1], margs).raised
           ELSE out = vmerge([meta |-> vmerge(left, right[1], margs).meta,
                              data |-> vmerge(left, right[1], margs).data],
                             right[2], margs)
        /\ margs.on = "None" =>
              /\ out.raised = "none"
              /\ Len(out.data.rows) = Len(left.data.rows)
                    + Len(right[1].data.rows) + Len(right[2].data.rows)

\* a chained call with the key id where B and C bring different columns and
\* C holds a row whose key neither A nor B holds
C26_Witness ==
    /\ pc = "chained"
    /\ margs.on = "id"
    /\ out.raised = "none"
    /\ out.data.columns = <<"id", "x", "y", "z">>
    /\ Len(out.data.rows) > Len(left.data.rows)
    /\ \E i \in DOMAIN out.data.rows : ~IsNull(ColumnSeries(out.data, "z")[i])

----------------------------------------------------------------------------
(* hmerge, vmerge: the caller's objects                                    *)

\* C23: when hmerge or vmerge has returned or raised, the caller's left and
\* right documents and tables hold what they held before the call, and the
\* document returned has no part in an object of the caller
C23_InputsKept ==
    pc \in {"returned", "raised"} =>
        /\ left = res.left
        /\ right = res.right
        /\ out.parts \cap CallerRefs = {}

\* a call has returned after it wrote to its left document and table and to
\* its right document
C23_Witness ==
    /\ pc = "returned"
    /\ ValueAt(M.meta_left) # res.left.meta
    /\ ValueAt(M.data_left) # res.left.data
    /\ ValueAt(M.meta_right) # res.right.meta
    /\ out.meta = ValueAt(M.meta_left)

----------------------------------------------------------------------------
(* recode: the rows of a delimited-set result                              *)

\* C28: every non-missing row of the series recode returns for a
\* delimited-set target holds integer tokens in strictly ascending numeric
\* order, none twice, and ends with ';', also when the seeded column was
\* numeric and the mapper adds a code the row holds already
C28_CanonicalRows ==
    (/\ Recoded
     /\ TargetType = "delimited set"
     /\ rargs.fillna.none) =>
        \A i \in DOMAIN res.series :
            IsNull(res.series[i]) \/ CanonicalCell(res.series[i])

----------------------------------------------------------------------------
(* crosstab: xtotal                                                        *)

\* the frequency column could not be computed for the rows of the table
TotalFailed == right.raised # "none" \/ LocError(right.table, left.index)

\* C29: when crosstab is called with xtotal=True and computing the
\* frequency column fails, crosstab raises nothing and returns the table
\* without that column
C29_XTotalDegrades ==
    (/\ pc = "crossed"
     /\ margs.xtotal
     /\ margs.get \in {"count", "normalize"}
     /\ TotalFailed) =>
        /\ out.raised = "none"
        /\ out.table = IF margs.array THEN Transposed(left) ELSE left

----------------------------------------------------------------------------
(* merge_meta: a second merge of the same right document                   *)

\* C30: merging the same right document into the left a second time, with
\* the same from_set and overwrite_text, raises nothing and leaves the
\* columns (their names, value ids and texts), the items of the data file
\* set, the masks with their items and lib.values as the first merge left
\* them: nothing is added twice
C30_SecondMergeAddsNothing ==
    pc = "merged again" =>
        /\ out.raised = "none"
        /\ out.meta.columns = res.meta.columns
        /\ Get(out.meta.sets, "data file").items = Get(res.meta.sets, "data file").items
        /\ out.meta.masks = res.meta.masks
        /\ out.meta.lib = res.meta.lib

\* the first merge added a column and an item to the data file set, and
\* changed the masks and lib.values of the left
C30_Witness ==
    /\ pc = "merged again"
    /\ out.raised = "none"
    /\ Len(res.meta.columns) > Len(left.columns)
    /\ Len(Get(res.meta.sets, "data file").items) > Len(Get(left.sets, "data file").items)
    /\ res.meta.masks # left.masks
    /\ res.meta.lib # left.lib

====
